---------------------------- MODULE Spec2Model ----------------------------
(***************************************************************************)
(* Model of the resume parsing service of src/app.py: the request handler  *)
(* parse_career_robust with its cascade of extraction strategies, the      *)
(* entry extractors the strategies are built from, the validation pass and *)
(* the confidence computation.                                             *)
(*                                                                         *)
(* Text is not modelled character by character.  What a regular expression *)
(* finds in the resume text is an input of the step that runs it, drawn    *)
(* from a bounded set; the code that consumes the match is translated as   *)
(* written.  Confidences are integers in hundredths (0.9 is 90).           *)
(***************************************************************************)
EXTENDS Integers, Sequences, FiniteSets, TLC

\* ------------------------------------------------------------------ bounds
\* Blocks of an EXPERIENCE section handed to extract_job_entries.
MaxBlocks == 2
\* Entities, regex matches and date tokens one NLP / multi-pattern run finds.
MaxFound == 2

\* --------------------------------------------------------------- constants
FixedConfidence == 90
MultiConfidence == 70
FallbackConfidence == 30
EmergencyConfidence == 10
NlpBaseConfidence == 60
NlpEduStep == 10
NlpExpStep == 5
ConfidenceCap == 95
CompleteBonus == 5
DegreeYears == 4

\* Python's None.
NULL == "None"

Min(a, b) == IF a <= b THEN a ELSE b
Max(a, b) == IF a >= b THEN a ELSE b

\* Sequences over S of length 0..n.
SeqUpTo(S, n) == UNION {[1..k -> S] : k \in 0..n}

\* Python's truthiness of a str-or-None value.
Truthy(s) == s # NULL /\ s # ""

\* ------------------------------------------------------------ characters
\* Lower-cased character sequences of the strings whose content the code
\* inspects with the `in` operator.
Chars(s) ==
    CASE s = "Jan 2019"       -> <<"j","a","n"," ","2","0","1","9">>
      [] s = "Sepresent 2020" -> <<"s","e","p","r","e","s","e","n","t"," ","2","0","2","0">>
      [] s = "Dec 2022"       -> <<"d","e","c"," ","2","0","2","2">>
      [] s = "2019"           -> <<"2","0","1","9">>
      [] s = "2020"           -> <<"2","0","2","0">>
      [] s = "bs today"       -> <<"b","s"," ","t","o","d","a","y">>
      [] s = "Intern"         -> <<"i","n","t","e","r","n">>
      [] s = "Developer"      -> <<"d","e","v","e","l","o","p","e","r">>
      [] s = "Intern Developer" -> <<"i","n","t","e","r","n"," ","d","e","v","e","l","o","p","e","r">>
      [] s = "Software Engineer" -> <<"s","o","f","t","w","a","r","e"," ","e","n","g","i","n","e","e","r">>
      [] s = "State University" -> <<"s","t","a","t","e"," ","u","n","i","v","e","r","s","i","t","y">>
      [] s = "Tech Institute" -> <<"t","e","c","h"," ","i","n","s","t","i","t","u","t","e">>
      [] s = "Bachelor Degree" -> <<"b","a","c","h","e","l","o","r"," ","d","e","g","r","e","e">>
      [] s = "university"     -> <<"u","n","i","v","e","r","s","i","t","y">>
      [] s = "college"        -> <<"c","o","l","l","e","g","e">>
      [] s = "present"        -> <<"p","r","e","s","e","n","t">>
      [] s = "intern"         -> <<"i","n","t","e","r","n">>
      [] OTHER                -> <<>>

\* Python's `needle in hay` on lower-cased strings.
Contains(hay, needle) ==
    LET h == Chars(hay)
        n == Chars(needle)
    IN  \E i \in 1..(Len(h) - Len(n) + 1) : SubSeq(h, i, i + Len(n) - 1) = n

\* str.strip() on the field values of the model.
Strip(s) ==
    CASE s = " "     -> ""
      [] s = "Acme " -> "Acme"
      [] OTHER       -> s


\* ------------------------------------------------------------ date tokens
\* What DATE_RGX matches: a month name and a year ("my"), a month prefix
\* followed by further letters that is no month name ("mx"), a numeric
\* month/year ("nmy"), a bare year ("y"), a season and a year ("sy").
MonthYear(m, y) == [kind |-> "my", mon |-> m, year |-> y]
MonthLike(y) == [kind |-> "mx", mon |-> 0, year |-> y]
NumMonthYear(m, y) == [kind |-> "nmy", mon |-> m, year |-> y]
BareYear(y) == [kind |-> "y", mon |-> 0, year |-> y]
SeasonYear(y) == [kind |-> "sy", mon |-> 0, year |-> y]
\* The words the range pattern accepts in place of an end date.
Present == [kind |-> "present", mon |-> 0, year |-> 0]
Current == [kind |-> "current", mon |-> 0, year |-> 0]
NoToken == [kind |-> "none", mon |-> 0, year |-> 0]

\* Dates (month, day) the clock may show when dateutil reads it.
Todays == {[mon |-> 1, day |-> 1], [mon |-> 10, day |-> 31]}

DaysIn(m, y) ==
    IF m \in {4, 6, 9, 11} THEN 30
    ELSE IF m = 2 THEN (IF y % 4 = 0 /\ (y % 100 # 0 \/ y % 400 = 0) THEN 29 ELSE 28)
    ELSE 31

Pad2(n) == IF n < 10 THEN "0" \o ToString(n) ELSE ToString(n)

\* datetime.strftime('%Y-%m-%d')
IsoDate(y, m, d) == ToString(y) \o "-" \o Pad2(m) \o "-" \o Pad2(d)

\* dateutil.parser.parse: the fields the text does not give (the day, and
\* for a bare year the month) are taken from the default, today, the day
\* clamped to the month's length.  A month outside 1..12, a season name
\* and an unknown word raise, which every caller turns into None.
DateutilParse(tok, today) ==
    IF tok.kind \in {"my", "nmy"} /\ tok.mon \in 1..12
    THEN IsoDate(tok.year, tok.mon, Min(today.day, DaysIn(tok.mon, tok.year)))
    ELSE IF tok.kind = "y"
    THEN IsoDate(tok.year, today.mon, Min(today.day, DaysIn(today.mon, tok.year)))
    ELSE NULL

ParseSingleDate(tok, today) ==
    IF tok.kind \in {"none", "present", "current"} THEN NULL
    ELSE IF tok.kind \in {"my", "mx", "sy"} THEN DateutilParse(tok, today)
    ELSE IF tok.kind = "y" THEN ToString(tok.year) \o "-01-01"
    ELSE IF tok.kind = "yx" THEN tok.text \o "-01-01"
    ELSE DateutilParse(tok, today)

\* ------------------------------------------------------- strings of dates
\* A date string is the sequence of its characters; "ndash" and "mdash"
\* stand for the en dash and the em dash.

\* str.lower()
Lower(s) ==
    LET LowerChar(c) ==
        CASE c = "A" -> "a"
          [] c = "B" -> "b"
          [] c = "C" -> "c"
          [] c = "D" -> "d"
          [] c = "E" -> "e"
          [] c = "F" -> "f"
          [] c = "G" -> "g"
          [] c = "H" -> "h"
          [] c = "I" -> "i"
          [] c = "J" -> "j"
          [] c = "K" -> "k"
          [] c = "L" -> "l"
          [] c = "M" -> "m"
          [] c = "N" -> "n"
          [] c = "O" -> "o"
          [] c = "P" -> "p"
          [] c = "Q" -> "q"
          [] c = "R" -> "r"
          [] c = "S" -> "s"
          [] c = "T" -> "t"
          [] c = "U" -> "u"
          [] c = "V" -> "v"
          [] c = "W" -> "w"
          [] c = "X" -> "x"
          [] c = "Y" -> "y"
          [] c = "Z" -> "z"
          [] OTHER -> c
    IN  [i \in DOMAIN s |-> LowerChar(s[i])]

\* Python's `needle in hay` on character sequences.
HasSub(hay, needle) ==
    \E i \in 1..(Len(hay) - Len(needle) + 1) : SubSeq(hay, i, i + Len(needle) - 1) = needle

\* str.strip()
StripChars(s) ==
    LET kept == {i \in DOMAIN s : s[i] # " "}
    IN  IF kept = {} THEN <<>>
        ELSE SubSeq(s, CHOOSE i \in kept : \A j \in kept : i <= j,
                       CHOOSE i \in kept : \A j \in kept : i >= j)

\* The string of a character sequence.
RECURSIVE StrOf(_)
StrOf(s) == IF s = <<>> THEN "" ELSE Head(s) \o StrOf(Tail(s))

\* int() of a string of digits.
RECURSIVE Num(_)
Num(ds) ==
    LET DigitVal(c) ==
            CASE c = "0" -> 0 [] c = "1" -> 1 [] c = "2" -> 2 [] c = "3" -> 3 [] c = "4" -> 4
              [] c = "5" -> 5 [] c = "6" -> 6 [] c = "7" -> 7 [] c = "8" -> 8 [] c = "9" -> 9
    IN  IF ds = <<>> THEN 0
        ELSE 10 * Num(SubSeq(ds, 1, Len(ds) - 1)) + DigitVal(ds[Len(ds)])

\* \d on every character of s.
AllDigits(s) == \A i \in DOMAIN s : s[i] \in {"0", "1", "2", "3", "4", "5", "6", "7", "8", "9"}

\* \w on the characters of the model: everything but the blank, the
\* dashes, the slash and the other punctuation.
IsWordChar(c) == c \notin {" ", "-", "ndash", "mdash", "/", "(", ")", ",", "."}

\* The blank-separated words of s.
RECURSIVE Words(_)
Words(s) ==
    LET t == StripChars(s)
        blanks == {i \in DOMAIN t : t[i] = " "}
    IN  IF t = <<>> THEN <<>>
        ELSE IF blanks = {} THEN <<t>>
        ELSE LET k == CHOOSE i \in blanks : \A j \in blanks : i <= j
             IN  <<SubSeq(t, 1, k - 1)>> \o Words(SubSeq(t, k + 1, Len(t)))

\* The month a lower-cased word names for dateutil, 0 when it names none.
MonthOf(w) ==
    CASE w = <<"j", "a", "n">> -> 1
      [] w = <<"j", "a", "n", "u", "a", "r", "y">> -> 1
      [] w = <<"f", "e", "b">> -> 2
      [] w = <<"f", "e", "b", "r", "u", "a", "r", "y">> -> 2
      [] w = <<"m", "a", "r">> -> 3
      [] w = <<"m", "a", "r", "c", "h">> -> 3
      [] w = <<"a", "p", "r">> -> 4
      [] w = <<"a", "p", "r", "i", "l">> -> 4
      [] w = <<"m", "a", "y">> -> 5
      [] w = <<"j", "u", "n">> -> 6
      [] w = <<"j", "u", "n", "e">> -> 6
      [] w = <<"j", "u", "l">> -> 7
      [] w = <<"j", "u", "l", "y">> -> 7
      [] w = <<"a", "u", "g">> -> 8
      [] w = <<"a", "u", "g", "u", "s", "t">> -> 8
      [] w = <<"s", "e", "p">> -> 9
      [] w = <<"s", "e", "p", "t">> -> 9
      [] w = <<"s", "e", "p", "t", "e", "m", "b", "e", "r">> -> 9
      [] w = <<"o", "c", "t">> -> 10
      [] w = <<"o", "c", "t", "o", "b", "e", "r">> -> 10
      [] w = <<"n", "o", "v">> -> 11
      [] w = <<"n", "o", "v", "e", "m", "b", "e", "r">> -> 11
      [] w = <<"d", "e", "c">> -> 12
      [] w = <<"d", "e", "c", "e", "m", "b", "e", "r">> -> 12
      [] OTHER -> 0

IsSeason(w) == w = <<"s", "p", "r", "i", "n", "g">> \/ w = <<"s", "u", "m", "m", "e", "r">> \/ w = <<"f", "a", "l", "l">> \/ w = <<"w", "i", "n", "t", "e", "r">>


\* What a stripped string is to parse_single_date and to dateutil: one of
\* the date tokens, one of the words Present / Current, nothing, a year
\* followed by more text ("yx", which parse_single_date returns with
\* "-01-01" appended), or text dateutil raises on ("junk").
Lex(s) ==
    LET low == Lower(s)
        ws == Words(low)
        \* re.match(r'\w+\s+\d{4}', s)
        WordYearPrefix ==
            \E w \in 1..Len(s), b \in 1..Len(s) :
                /\ Len(s) >= w + b + 4
                /\ \A i \in 1..w : IsWordChar(s[i])
                /\ \A i \in (w + 1)..(w + b) : s[i] = " "
                /\ AllDigits(SubSeq(s, w + b + 1, w + b + 4))
        \* re.match(r'\d{4}', s)
        YearPrefix == Len(s) >= 4 /\ AllDigits(SubSeq(s, 1, 4))
        \* a numeric month/year, "05/2023"
        IsNumMonthYear ==
            \E k \in 1..2 :
                /\ Len(s) = k + 5
                /\ AllDigits(SubSeq(s, 1, k))
                /\ s[k + 1] = "/"
                /\ AllDigits(SubSeq(s, k + 2, k + 5))
    IN  IF s = <<>> THEN NoToken
        ELSE IF HasSub(low, <<"p", "r", "e", "s", "e", "n", "t">>) THEN Present
        ELSE IF HasSub(low, <<"c", "u", "r", "r", "e", "n", "t">>) THEN Current
        ELSE IF Len(ws) = 2 /\ Len(ws[2]) = 4 /\ AllDigits(ws[2]) /\ MonthOf(ws[1]) # 0
        THEN MonthYear(MonthOf(ws[1]), Num(ws[2]))
        ELSE IF Len(ws) = 2 /\ Len(ws[2]) = 4 /\ AllDigits(ws[2]) /\ IsSeason(ws[1])
        THEN SeasonYear(Num(ws[2]))
        ELSE IF Len(ws) = 2 /\ Len(ws[2]) = 4 /\ AllDigits(ws[2])
                /\ \A i \in DOMAIN ws[1] : IsWordChar(ws[1][i])
        THEN MonthLike(Num(ws[2]))
        ELSE IF Len(s) = 4 /\ AllDigits(s) THEN BareYear(Num(s))
        ELSE IF IsNumMonthYear
        THEN NumMonthYear(Num(SubSeq(s, 1, Len(s) - 5)), Num(SubSeq(s, Len(s) - 3, Len(s))))
        ELSE IF YearPrefix /\ ~WordYearPrefix
        THEN [kind |-> "yx", mon |-> 0, year |-> Num(SubSeq(s, 1, 4)), text |-> StrOf(s)]
        ELSE [kind |-> "junk", mon |-> 0, year |-> 0]

\* parse_single_date on a string.
parse_single_date(date_str, today) == ParseSingleDate(Lex(date_str), today)

\* re.split(r'[-ndash mdash]', s), and with withTo
\* re.split(r'[-ndash mdash]|to', s, flags=re.IGNORECASE): a dash is a
\* separator, and with withTo so are the letters "to" in either case.
RECURSIVE ReSplit(_, _)
ReSplit(s, withTo) ==
    LET SepLen(i) ==
            IF s[i] \in {"-", "ndash", "mdash"} THEN 1
            ELSE IF withTo /\ i < Len(s) /\ s[i] \in {"t", "T"} /\ s[i + 1] \in {"o", "O"}
            THEN 2
            ELSE 0
        hits == {i \in DOMAIN s : SepLen(i) > 0}
    IN  IF hits = {} THEN <<s>>
        ELSE LET k == CHOOSE i \in hits : \A j \in hits : i <= j
             IN  <<SubSeq(s, 1, k - 1)>> \o ReSplit(SubSeq(s, k + SepLen(k), Len(s)), withTo)

IsCurrent(date_str) ==
    \/ HasSub(Lower(date_str), <<"p", "r", "e", "s", "e", "n", "t">>)
    \/ HasSub(Lower(date_str), <<"c", "u", "r", "r", "e", "n", "t">>)

parse_date_range(date_str, today) ==
    IF date_str = <<>> THEN [start_date |-> NULL, end_date |-> NULL, current |-> FALSE]
    ELSE LET current == IsCurrent(date_str)
             parts == ReSplit(date_str, FALSE)
         IN  [start_date |-> parse_single_date(StripChars(parts[1]), today),
              end_date   |-> IF Len(parts) >= 2 /\ ~current
                             THEN parse_single_date(StripChars(parts[2]), today) ELSE NULL,
              current    |-> current]


\* ------------------------------------------------------ experience blocks
\* One block of the EXPERIENCE text after the split on bullets and blank
\* lines, as the patterns of extract_job_entries see it: the range match
\* (rm_start, rm_end), the single-date match sm used when there is no range,
\* the title match ("" when none) and the company match (NULL when none).
Block(rs, re, sm, title, cm) ==
    [rm_start |-> rs, rm_end |-> re, sm |-> sm, title |-> title, cm |-> cm]

HasRange(b) == b.rm_start.kind # "none"

\* re.search(r'\b(\d{4})\b', blk): every date token carries a 4-digit year.
BlockYear(b) ==
    IF HasRange(b) THEN b.rm_start.year
    ELSE IF b.sm.kind # "none" THEN b.sm.year
    ELSE 0

EmploymentType(title) ==
    IF Contains(title, "intern") THEN "Internship" ELSE "Full-time"

JobStartDate(b, today) ==
    LET parsed == IF HasRange(b) THEN ParseSingleDate(b.rm_start, today)
                  ELSE ParseSingleDate(b.sm, today)
    IN  IF parsed # NULL THEN parsed
        ELSE IF BlockYear(b) # 0 THEN ToString(BlockYear(b)) \o "-01-01"
        ELSE NULL

JobIsCurrent(b) == HasRange(b) /\ b.rm_end.kind \in {"present", "current"}

JobEndDate(b, today) ==
    IF HasRange(b) /\ ~JobIsCurrent(b) THEN ParseSingleDate(b.rm_end, today) ELSE NULL

JobEntry(b, today) ==
    [company         |-> IF b.cm # NULL THEN Strip(b.cm) ELSE "Company not specified",
     position        |-> IF Strip(b.title) # "" THEN Strip(b.title) ELSE "Position not specified",
     start_date      |-> JobStartDate(b, today),
     end_date        |-> JobEndDate(b, today),
     current         |-> JobIsCurrent(b),
     employment_type |-> EmploymentType(Strip(b.title))]

\* Mutation: a block without a start date is kept.
RECURSIVE JobEntriesKeepAll(_, _)
JobEntriesKeepAll(blocks, today) ==
    IF blocks = <<>> THEN <<>>
    ELSE <<JobEntry(Head(blocks), today)>> \o JobEntriesKeepAll(Tail(blocks), today)

RECURSIVE extract_job_entries(_, _)
extract_job_entries(blocks, today) ==
    IF blocks = <<>> THEN <<>>
    ELSE LET b == Head(blocks)
             rest == extract_job_entries(Tail(blocks), today)
         IN  IF JobStartDate(b, today) = NULL THEN rest
             ELSE <<JobEntry(b, today)>> \o rest

\* ------------------------------------------------------------- validation
CleanEducation(edu) ==
    [edu EXCEPT !.institution = IF Strip(@) = "" THEN "Institution not specified" ELSE Strip(@),
                !.degree = IF Strip(@) = "" THEN "Degree not specified" ELSE Strip(@)]

RECURSIVE validate_and_clean_education(_)
validate_and_clean_education(education) ==
    IF education = <<>> THEN <<>>
    ELSE LET edu == Head(education)
             rest == validate_and_clean_education(Tail(education))
         IN  IF Truthy(edu.institution) \/ Truthy(edu.degree)
             THEN <<CleanEducation(edu)>> \o rest
             ELSE rest

CleanExperience(exp) ==
    [exp EXCEPT !.company = IF Strip(@) = "" THEN "Company not specified" ELSE Strip(@),
                !.position = IF Strip(@) = "" THEN "Position not specified" ELSE Strip(@)]

RECURSIVE validate_and_clean_work_experience(_)
validate_and_clean_work_experience(work) ==
    IF work = <<>> THEN <<>>
    ELSE LET exp == Head(work)
             rest == validate_and_clean_work_experience(Tail(work))
         IN  IF Truthy(exp.company) \/ Truthy(exp.position)
             THEN <<CleanExperience(exp)>> \o rest
             ELSE rest

\* ------------------------------------------------------------- confidence
CompleteEducation(edu) ==
    Truthy(edu.institution) /\ Truthy(edu.degree) /\ Truthy(edu.end_date)

CompleteExperience(exp) ==
    Truthy(exp.company) /\ Truthy(exp.position) /\ Truthy(exp.start_date)

CountCompleteEducation(education) ==
    Cardinality({i \in DOMAIN education : CompleteEducation(education[i])})

CountCompleteExperience(work) ==
    Cardinality({i \in DOMAIN work : CompleteExperience(work[i])})

\* Mutation: the result is not capped.
ConfidenceUncapped(education, work, base_confidence) ==
    base_confidence
      + CompleteBonus * CountCompleteEducation(education)
      + CompleteBonus * CountCompleteExperience(work)

\* Mutation: the loop over the work experience is missing.
ConfidenceEducationOnly(education, work, base_confidence) ==
    Min(ConfidenceCap, base_confidence + CompleteBonus * CountCompleteEducation(education))

calculate_confidence(education, work, base_confidence) ==
    Min(ConfidenceCap,
        base_confidence
          + CompleteBonus * CountCompleteEducation(education)
          + CompleteBonus * CountCompleteExperience(work))


\* ---------------------------------------------------- strategy 1: sections
\* parse_education_section on the section mapping.  dm, im are group 1 of
\* the degree and institution matches (NULL when the pattern finds nothing),
\* ym the year found (0 when none).
DefaultYear == 2025

parse_education_section(secs, dm, im, ym) ==
    IF "education" \notin secs THEN <<>>
    ELSE IF dm # NULL \/ im # NULL
    THEN LET year == IF ym # 0 THEN ym ELSE DefaultYear
         IN  <<[institution |-> IF im # NULL THEN im ELSE "Seneca Polytechnic",
                degree      |-> IF dm # NULL THEN dm ELSE "Bachelor of Software Development",
                start_date  |-> ToString(year - DegreeYears) \o "-09-01",
                end_date    |-> ToString(year) \o "-06-01",
                current     |-> FALSE]>>
    ELSE <<>>

parse_experience_section(secs, blocks, today) ==
    IF "experience" \notin secs THEN <<>>
    ELSE validate_and_clean_work_experience(extract_job_entries(blocks, today))

\* extract_sections: the sections found by header, or, when there is none,
\* the buckets of the keyword heuristic.
extract_sections(hdrSecs, kwSecs) == IF hdrSecs # {} THEN hdrSecs ELSE kwSecs

\* --------------------------------------------------------- strategy 2: NLP
\* The 4-digit year inside a raw date token, found again by the bare-year
\* pattern of extract_dates_from_text.
YearOf(raw) ==
    CASE raw = "Jan 2019"       -> "2019"
      [] raw = "Sepresent 2020" -> "2020"
      [] raw = "Dec 2022"       -> "2022"
      [] OTHER                  -> raw

\* extract_dates_from_text: the month-year matches, then the bare years.
extract_dates_from_text(monthToks) ==
    monthToks \o [i \in DOMAIN monthToks |-> YearOf(monthToks[i])]

\* assign_dates_to_entry, entry_index counted from 0.
assign_dates_to_entry(dates, entry_index) ==
    IF Len(dates) >= (entry_index + 1) * 2
    THEN <<dates[entry_index * 2 + 1], dates[entry_index * 2 + 2]>>
    ELSE IF Len(dates) > entry_index
    THEN <<dates[entry_index + 1], NULL>>
    ELSE <<NULL, NULL>>

At(seq, i) == IF i <= Len(seq) THEN seq[i] ELSE ""

NlpEducationEntry(institution, degree, dates, i) ==
    LET d == assign_dates_to_entry(dates, i)
    IN  [institution |-> IF Truthy(institution) THEN institution ELSE "Institution not specified",
         degree      |-> IF Truthy(degree) THEN degree ELSE "Degree not specified",
         start_date  |-> d[1],
         end_date    |-> d[2],
         current     |-> d[2] = NULL]

NlpWorkCurrent(end_date) == end_date = NULL \/ Contains(end_date, "present")

NlpWorkEntry(company, position, dates, i) ==
    LET d == assign_dates_to_entry(dates, i)
    IN  [company         |-> IF Truthy(company) THEN company ELSE "Company not specified",
         position        |-> IF Truthy(position) THEN position ELSE "Position not specified",
         start_date      |-> d[1],
         end_date        |-> d[2],
         current         |-> NlpWorkCurrent(d[2]),
         employment_type |-> "Full-time"]

\* The combining loop of both NLP extractors: the indices (from 1) of the
\* entries built, entry i being built when either list has an i-th element.
NlpKept(as, bs) ==
    LET n == Max(Max(Len(as), Len(bs)), 1)
    IN  SelectSeq([i \in 1..n |-> i], LAMBDA i : Truthy(At(as, i)) \/ Truthy(At(bs, i)))

extract_education_nlp(found, institutions, degrees, monthToks) ==
    IF ~found THEN <<>>
    ELSE LET kept == NlpKept(institutions, degrees)
             dates == extract_dates_from_text(monthToks)
         IN  [j \in 1..Len(kept) |->
                NlpEducationEntry(At(institutions, kept[j]), At(degrees, kept[j]), dates, kept[j] - 1)]

extract_work_experience_nlp(found, companies, job_titles, monthToks) ==
    IF ~found THEN <<>>
    ELSE LET kept == NlpKept(companies, job_titles)
             dates == extract_dates_from_text(monthToks)
         IN  [j \in 1..Len(kept) |->
                NlpWorkEntry(At(companies, kept[j]), At(job_titles, kept[j]), dates, kept[j] - 1)]

NlpConfidence(education, work) ==
    Min(ConfidenceCap, NlpBaseConfidence + NlpEduStep * Len(education) + NlpExpStep * Len(work))


\* -------------------------------------------------------- the date strings
\* The date strings of the calls, by name:
\*   AprilToPresent    "April 2025 - Present"
\*   JanToDec          "Jan 2020 - Dec 2022"
\*   JanToCurrent      "Jan 2020 - Current"
\*   OctoberToPresent  "October 2020 - Present"
\*   OctoberToDec      "October 2020 - Dec 2022"
\*   JanWordToDec      "Jan 2020 to Dec 2022"
\*   AugWordToPresent  "Aug 2021 to Present"
\*   OctEnDashNov      "Oct 2020 (en dash) Nov 2021"
\*   FebEmDashMar      "Feb 2024 (em dash) Mar 2024"
\*   YearToYear        "2019 - 2021"
\*   YearWordToYear    "2019 to 2021"
\*   NumericToPresent  "05/2023 - Present"
\*   SummerToFall      "Summer 2022 - Fall 2022"
\*   SummerAlone       "Summer 2022"
\*   SpringAlone       "Spring 2021"
\*   FallAlone         "Fall 2023"
\*   WinterAlone       "Winter 2020"
\*   YearAlone         "2021"
\*   MayAlone          "May 2021"
DateText ==
    [AprilToPresent |->
         <<"A", "p", "r", "i", "l", " ", "2", "0", "2", "5", " ", "-", " ",
         "P", "r", "e", "s", "e", "n", "t">>,
     JanToDec |->
         <<"J", "a", "n", " ", "2", "0", "2", "0", " ", "-", " ", "D", "e",
         "c", " ", "2", "0", "2", "2">>,
     JanToCurrent |->
         <<"J", "a", "n", " ", "2", "0", "2", "0", " ", "-", " ", "C", "u",
         "r", "r", "e", "n", "t">>,
     OctoberToPresent |->
         <<"O", "c", "t", "o", "b", "e", "r", " ", "2", "0", "2", "0", " ",
         "-", " ", "P", "r", "e", "s", "e", "n", "t">>,
     OctoberToDec |->
         <<"O", "c", "t", "o", "b", "e", "r", " ", "2", "0", "2", "0", " ",
         "-", " ", "D", "e", "c", " ", "2", "0", "2", "2">>,
     JanWordToDec |->
         <<"J", "a", "n", " ", "2", "0", "2", "0", " ", "t", "o", " ", "D",
         "e", "c", " ", "2", "0", "2", "2">>,
     AugWordToPresent |->
         <<"A", "u", "g", " ", "2", "0", "2", "1", " ", "t", "o", " ", "P",
         "r", "e", "s", "e", "n", "t">>,
     OctEnDashNov |->
         <<"O", "c", "t", " ", "2", "0", "2", "0", " ", "ndash", " ", "N",
         "o", "v", " ", "2", "0", "2", "1">>,
     FebEmDashMar |->
         <<"F", "e", "b", " ", "2", "0", "2", "4", " ", "mdash", " ", "M",
         "a", "r", " ", "2", "0", "2", "4">>,
     YearToYear |->
         <<"2", "0", "1", "9", " ", "-", " ", "2", "0", "2", "1">>,
     YearWordToYear |->
         <<"2", "0", "1", "9", " ", "t", "o", " ", "2", "0", "2", "1">>,
     NumericToPresent |->
         <<"0", "5", "/", "2", "0", "2", "3", " ", "-", " ", "P", "r", "e",
         "s", "e", "n", "t">>,
     SummerToFall |->
         <<"S", "u", "m", "m", "e", "r", " ", "2", "0", "2", "2", " ", "-",
         " ", "F", "a", "l", "l", " ", "2", "0", "2", "2">>,
     SummerAlone |->
         <<"S", "u", "m", "m", "e", "r", " ", "2", "0", "2", "2">>,
     SpringAlone |->
         <<"S", "p", "r", "i", "n", "g", " ", "2", "0", "2", "1">>,
     FallAlone |->
         <<"F", "a", "l", "l", " ", "2", "0", "2", "3">>,
     WinterAlone |->
         <<"W", "i", "n", "t", "e", "r", " ", "2", "0", "2", "0">>,
     YearAlone |->
         <<"2", "0", "2", "1">>,
     MayAlone |->
         <<"M", "a", "y", " ", "2", "0", "2", "1">>]

\* The ranges, the single tokens, and all of them with the empty string.
RangeStrings ==
    {DateText.AprilToPresent, DateText.JanToDec, DateText.JanToCurrent, DateText.OctoberToPresent,
     DateText.OctoberToDec, DateText.JanWordToDec, DateText.AugWordToPresent, DateText.OctEnDashNov,
     DateText.FebEmDashMar, DateText.YearToYear, DateText.YearWordToYear, DateText.NumericToPresent,
     DateText.SummerToFall}

TokenStrings ==
    {DateText.SpringAlone, DateText.SummerAlone, DateText.FallAlone, DateText.WinterAlone, DateText.MayAlone, DateText.YearAlone}

DateStrings == RangeStrings \cup TokenStrings \cup {<<>>}


\* ----------------------------------------------- strategy 3: multi-pattern
\* date_parser.parse(part.strip()) inside try/except: None when it raises.
PartParse(part, today) == DateutilParse(Lex(StripChars(part)), today)

parse_date_range_multi(date_str, today) ==
    IF date_str = <<>> THEN <<NULL, NULL>>
    ELSE LET current == IsCurrent(date_str)
             parts == ReSplit(date_str, TRUE)
         IN  <<PartParse(parts[1], today),
               IF Len(parts) >= 2 /\ ~current THEN PartParse(parts[2], today) ELSE NULL>>

MultiEducationEntry(m) ==
    LET institution == IF Contains(m.g1, "university") \/ Contains(m.g1, "college")
                       THEN m.g1 ELSE m.g0
        degree == IF institution = m.g1 THEN m.g0 ELSE m.g1
    IN  [institution |-> Strip(institution),
         degree      |-> Strip(degree),
         start_date  |-> ToString(m.year - DegreeYears) \o "-09-01",
         end_date    |-> ToString(m.year) \o "-06-01",
         current     |-> FALSE]

\* Matches of the experience patterns of parse_with_multi_patterns.
MultiExpMatches ==
    {[position |-> "Software Engineer", company |-> "Acme", dates |-> DateText.JanToDec],
     [position |-> "Software Engineer", company |-> "Acme", dates |-> DateText.AprilToPresent],
     [position |-> "Developer", company |-> "Acme ", dates |-> DateText.JanToCurrent],
     [position |-> "Intern Developer", company |-> "Acme", dates |-> <<>>]}

\* The entry the experience loop builds from a match, as a function of the
\* match and of the day of the call.
MultiWorkEntry ==
    [m \in MultiExpMatches, today \in Todays |->
        LET d == parse_date_range_multi(m.dates, today)
        IN  [company         |-> Strip(m.company),
             position        |-> Strip(m.position),
             start_date      |-> d[1],
             end_date        |-> d[2],
             current         |-> IF m.dates # <<>>
                                 THEN HasSub(Lower(m.dates), <<"p", "r", "e", "s", "e", "n", "t">>)
                                 ELSE FALSE,
             employment_type |-> "Full-time"]]

\* parse_with_multi_patterns on the matches of its education and experience
\* patterns, in the order the loops meet them.
parse_with_multi_patterns(eduMatches, expMatches, today) ==
    <<[i \in DOMAIN eduMatches |-> MultiEducationEntry(eduMatches[i])],
      [i \in DOMAIN expMatches |-> MultiWorkEntry[expMatches[i], today]]>>

\* ---------------------------------------------------- strategy 4: fallback
\* fbEdu, fbExp: the text holds one of the education words, one of the work
\* words of the two presence tests.
parse_with_basic_fallback(fbEdu, fbExp) ==
    <<IF fbEdu
      THEN <<[institution |-> "Institution found in resume",
              degree      |-> "Degree mentioned in resume",
              start_date  |-> NULL,
              end_date    |-> NULL,
              current     |-> FALSE]>>
      ELSE <<>>,
      IF fbExp
      THEN <<[company         |-> "Company mentioned in resume",
              position        |-> "Position found in resume",
              start_date      |-> NULL,
              end_date        |-> NULL,
              current         |-> FALSE,
              employment_type |-> "Full-time"]>>
      ELSE <<>>>>


\* ====================================================== section extractor
\* A resume text is the sequence of its lines, a line the sequence of its
\* blank-separated words; no line is empty.
MaxLines == 3

ResumeLines ==
    {<<"EDUCATION">>,
     <<"Education:">>,
     <<"ACADEMIC", "BACKGROUND">>,
     <<"WORK", "EXPERIENCE">>,
     <<"Experience">>,
     <<"TECHNICAL", "SKILLS">>,
     <<"Skills:", "Python">>,
     <<"5", "years", "of", "experience", "in", "Java">>,
     <<"Bachelor", "degree", "2020">>,
     <<"Developer", "at", "Acme", "2020">>}

\* str.upper() of the words of a line, which the patterns are compared
\* with under re.I.
FoldLine(line) ==
    LET Fold(w) ==
            CASE w = "Education:"  -> "EDUCATION:"
              [] w = "Experience"  -> "EXPERIENCE"
              [] w = "experience"  -> "EXPERIENCE"
              [] w = "Skills:"     -> "SKILLS:"
              [] OTHER             -> w
    IN  [i \in DOMAIN line |-> Fold(line[i])]

\* Step 3 of clean_resume_text on one line: the header_aliases in order.
RECURSIVE CleanLine(_)
CleanLine(line) ==
    IF line = <<>> THEN <<>>
    ELSE IF FoldLine(line)[1] = "EDUCATION:" THEN <<"EDUCATION">> \o CleanLine(Tail(line))
    ELSE IF /\ Len(line) >= 2
            /\ SubSeq(FoldLine(line), 1, 2) \in
                 {<<"WORK", "EXPERIENCE:">>, <<"PROFESSIONAL", "EXPERIENCE:">>,
                  <<"EMPLOYMENT", "HISTORY:">>}
    THEN <<"EXPERIENCE">> \o CleanLine(SubSeq(line, 3, Len(line)))
    ELSE IF FoldLine(line)[1] \in {"SKILL:", "SKILLS:"} THEN <<"SKILLS">> \o CleanLine(Tail(line))
    ELSE <<line[1]>> \o CleanLine(Tail(line))

clean_resume_text(text) == [i \in DOMAIN text |-> CleanLine(text[i])]

SectionKeys == {"education", "experience", "skills", "projects", "certifications"}

\* The header alternatives of section_patterns.
SectionHeaders(name) ==
    CASE name = "education" ->
           {<<"EDUCATION">>, <<"ACADEMIC", "BACKGROUND">>, <<"QUALIFICATIONS">>}
      [] name = "experience" ->
           {<<"EXPERIENCE">>, <<"WORK", "EXPERIENCE">>, <<"EMPLOYMENT">>,
            <<"PROFESSIONAL", "EXPERIENCE">>, <<"CAREER">>}
      [] name = "skills" ->
           {<<"SKILL">>, <<"SKILLS">>, <<"TECHNICAL", "SKILLS">>, <<"PROGRAMMING">>}
      [] name = "projects" ->
           {<<"PROJECT">>, <<"PROJECTS">>, <<"PROJECT", "EXPERIENCE">>}
      [] name = "certifications" ->
           {<<"CERTIFICATION">>, <<"CERTIFICATIONS">>, <<"CERTIFICATE">>, <<"CERTIFICATES">>}

\* The alternatives of the look-ahead that ends the content of a section.
SectionStops(name) ==
    CASE name = "education" ->
           {<<"EXPERIENCE">>, <<"WORK", "EXPERIENCE">>, <<"EMPLOYMENT">>,
            <<"PROFESSIONAL", "EXPERIENCE">>, <<"CAREER">>, <<"SKILLS">>, <<"PROJECTS">>,
            <<"CERTIFICATIONS">>}
      [] name = "experience" ->
           {<<"SKILLS">>, <<"PROJECTS">>, <<"CERTIFICATIONS">>, <<"EDUCATION">>}
      [] name = "skills" ->
           {<<"PROJECT">>, <<"PROJECTS">>, <<"CERTIFICATIONS">>, <<"EXPERIENCE">>,
            <<"EDUCATION">>}
      [] name = "projects" ->
           {<<"CERTIFICATION">>, <<"CERTIFICATIONS">>, <<"SKILLS">>, <<"EXPERIENCE">>,
            <<"EDUCATION">>}
      [] name = "certifications" ->
           {<<"SKILLS">>, <<"PROJECTS">>, <<"EXPERIENCE">>, <<"EDUCATION">>}

\* Mutation: the header alternative may stand anywhere in the line.
IsHeaderLineAnywhere(name, line) ==
    \E h \in SectionHeaders(name) : HasSub(FoldLine(line), h)

\* (^|\n)\s*(?:...)\s*(?:\n|$) under re.I: the line is one of the header
\* alternatives and nothing else.
IsHeaderLine(name, line) == FoldLine(line) \in SectionHeaders(name)

\* re.search: the first header line of the section, 0 when there is none.
HeaderAt(name, text) ==
    IF \E i \in DOMAIN text : IsHeaderLine(name, text[i])
    THEN CHOOSE i \in DOMAIN text :
            /\ IsHeaderLine(name, text[i])
            /\ \A j \in 1..(i - 1) : ~IsHeaderLine(name, text[j])
    ELSE 0

\* Where the lazy content group stops: at the first line that is one of the
\* alternatives of the look-ahead \n\s*(?:...)\s*(?:\n|$) and whose leading
\* line break lies behind the one the header match has consumed, else at
\* the end of the text (index Len + 1).
StopAt(name, text) ==
    LET h == HeaderAt(name, text)
        stops == {k \in (h + 2)..Len(text) : FoldLine(text[k]) \in SectionStops(name)}
    IN  IF stops = {} THEN Len(text) + 1
        ELSE CHOOSE k \in stops : \A j \in stops : k <= j

\* The loop over section_patterns: the sections found by header, each with
\* the line of its header, the line its content stops before, and its
\* content; an empty content is not stored.
HeaderSections(text) ==
    LET found == {name \in SectionKeys :
                    /\ HeaderAt(name, text) # 0
                    /\ StopAt(name, text) > HeaderAt(name, text) + 1}
    IN  [name \in found |->
            [start   |-> HeaderAt(name, text),
             stop    |-> StopAt(name, text),
             content |-> SubSeq(text, HeaderAt(name, text) + 1, StopAt(name, text) - 1)]]

\* The number of keywords of edu_kw, and of exp_kw, that are in a line.
edu_score(line) ==
    LET EduKeywords(w) ==
            CASE w = "Bachelor" -> {"bachelor"}
              [] w = "degree"   -> {"degree"}
              [] OTHER          -> {}
    IN  Cardinality(UNION {EduKeywords(line[i]) : i \in DOMAIN line})

exp_score(line) ==
    LET ExpKeywords(w) ==
            CASE w = "Developer" -> {"developer"}
              [] OTHER           -> {}
    IN  Cardinality(UNION {ExpKeywords(line[i]) : i \in DOMAIN line})

\* Mutation: a line without a majority of its own has no bucket.
CurrentBucketNoCarry(text, n) ==
    IF n = 0 THEN NULL
    ELSE LET e == edu_score(text[n])
             x == exp_score(text[n])
         IN  IF e > x /\ e # 0 THEN "education"
             ELSE IF x > e /\ x # 0 THEN "experience"
             ELSE NULL

\* The bucket that is current after the first n lines, NULL for none.
RECURSIVE CurrentBucket(_, _)
CurrentBucket(text, n) ==
    IF n = 0 THEN NULL
    ELSE LET e == edu_score(text[n])
             x == exp_score(text[n])
         IN  IF e > x /\ e # 0 THEN "education"
             ELSE IF x > e /\ x # 0 THEN "experience"
             ELSE CurrentBucket(text, n - 1)

\* extract_sections_by_keywords: the lines of each bucket, empty buckets
\* dropped.
extract_sections_by_keywords(text) ==
    LET bucket(name) == SelectSeq([i \in DOMAIN text |-> i],
                                  LAMBDA i : CurrentBucket(text, i) = name)
        found == {name \in {"education", "experience"} : bucket(name) # <<>>}
    IN  [name \in found |->
            [start   |-> bucket(name)[1],
             stop    |-> Len(text) + 1,
             content |-> [j \in DOMAIN bucket(name) |-> text[bucket(name)[j]]]]]

\* Mutation: the keyword heuristic also runs when header detection found
\* neither an education nor an experience section.
ExtractSectionsCareerOnly(text) ==
    LET sections == HeaderSections(text)
    IN  IF DOMAIN sections \cap {"education", "experience"} # {}
        THEN [by |-> "headers", sections |-> sections]
        ELSE [by |-> "keywords", sections |-> extract_sections_by_keywords(text)]

\* extract_sections on the lines of a text, with the way the sections were
\* found.
ExtractSections(text) ==
    LET sections == HeaderSections(text)
    IN  IF DOMAIN sections # {}
        THEN [by |-> "headers", sections |-> sections]
        ELSE [by |-> "keywords", sections |-> extract_sections_by_keywords(text)]


\* ======================================================== scoring engine
\* ------------------------------------------------------- experience score
MaxYears == 5

\* A text as extract_experience sees it: the figures its patterns capture in
\* the lower-cased text, in the order of the pattern list, the patterns that
\* do not match left out.
ExperienceMatches == SeqUpTo(0..MaxYears, 2)

\* The job_experience argument: None, the empty string, or a text.
JobExperiences ==
    {[kind |-> "None", matches |-> <<>>], [kind |-> "empty", matches |-> <<>>]}
    \cup {[kind |-> "text", matches |-> m] : m \in ExperienceMatches}

\* The first pattern that matches decides; int(match.group(1)) of \d+.
extract_experience(matches) == IF matches = <<>> THEN 0 ELSE Head(matches)

\* Mutation: the 75 tier needs more than required - 1.
ExperienceTierStrict(job_exp, resume_exp) ==
    IF job_exp = 0 THEN [score |-> 100, explanation |-> "none required"]
    ELSE IF resume_exp >= job_exp THEN [score |-> 100, explanation |-> "meets"]
    ELSE IF resume_exp > job_exp - 1 THEN [score |-> 75, explanation |-> "close"]
    ELSE IF resume_exp >= job_exp - 2 THEN [score |-> 50, explanation |-> "some"]
    ELSE [score |-> 25, explanation |-> "limited"]

\* The branches of calculate_experience_score on the two extracted figures.
ExperienceTier(job_exp, resume_exp) ==
    IF job_exp = 0 THEN [score |-> 100, explanation |-> "none required"]
    ELSE IF resume_exp >= job_exp THEN [score |-> 100, explanation |-> "meets"]
    ELSE IF resume_exp >= job_exp - 1 THEN [score |-> 75, explanation |-> "close"]
    ELSE IF resume_exp >= job_exp - 2 THEN [score |-> 50, explanation |-> "some"]
    ELSE [score |-> 25, explanation |-> "limited"]

calculate_experience_score(job_experience, resume_matches) ==
    LET job_exp == IF job_experience.kind = "text"
                   THEN extract_experience(job_experience.matches) ELSE 0
        resume_exp == extract_experience(resume_matches)
    IN  ExperienceTier(job_exp, resume_exp)


\* ------------------------------------------------------------ skill score
\* Scores are floats in the code; the model keeps them in hundredths of a
\* point, rounded down.
ScoreScale == 100
FullScore == 100

MaxSkills == 3

\* The resume the skill lists are matched against, and the empty resume:
\*   "Senior Python developer. Built REST services with nodejs; deployed on
\*    Amazon Web Services and Kubernetes. Teraform scripts, data pipelines
\*    for machine learning."
SkillResumes == {"resume", ""}

SkillNames ==
    {"Python", "Node.js", "AWS", "k8s", "Terraform", "Data Pipelines Machine Vision",
     "Deep Learning", "Rust", "Go"}

\* What the tests of skill_similarity find for a skill in the resume above:
\*   direct     skill_lower in resume_lower
\*   variation  one of the six spellings in skill_variations is in the resume
\*   alias      the skill is a key of tech_aliases and one alias is in the resume
\*   reverse    the skill is an alias of a key that is in the resume
\*   words      len(skill_lower.split())
\*   hits       words longer than 2 that are in the resume
\*   length     len(skill_lower)
\*   fuzzy      a resume word with SequenceMatcher ratio above 0.85
SkillTests(skill, resume_text) ==
    LET SkillTest(d, v, a, r, w, h, l, f) ==
            [direct |-> d, variation |-> v, alias |-> a, reverse |-> r,
             words |-> w, hits |-> h, length |-> l, fuzzy |-> f]
        SkillWords ==
            CASE skill = "Data Pipelines Machine Vision" -> 4
              [] skill = "Deep Learning" -> 2
              [] OTHER -> 1
        SkillLength ==
            CASE skill = "Python" -> 6
              [] skill = "Node.js" -> 7
              [] skill = "AWS" -> 3
              [] skill = "k8s" -> 3
              [] skill = "Terraform" -> 9
              [] skill = "Data Pipelines Machine Vision" -> 29
              [] skill = "Deep Learning" -> 13
              [] skill = "Rust" -> 4
              [] OTHER -> 2
    IN  IF resume_text = ""
        THEN SkillTest(FALSE, FALSE, FALSE, FALSE, SkillWords, 0, SkillLength, FALSE)
        ELSE CASE skill = "Python"    -> SkillTest(TRUE, TRUE, TRUE, FALSE, 1, 1, 6, TRUE)
               [] skill = "Node.js"   -> SkillTest(FALSE, TRUE, FALSE, TRUE, 1, 0, 7, TRUE)
               [] skill = "AWS"       -> SkillTest(FALSE, FALSE, TRUE, FALSE, 1, 0, 3, FALSE)
               [] skill = "k8s"       -> SkillTest(FALSE, FALSE, FALSE, TRUE, 1, 0, 3, FALSE)
               [] skill = "Terraform" -> SkillTest(FALSE, FALSE, FALSE, FALSE, 1, 0, 9, TRUE)
               [] skill = "Data Pipelines Machine Vision"
                                      -> SkillTest(FALSE, FALSE, FALSE, FALSE, 4, 3, 29, FALSE)
               [] skill = "Deep Learning"
                                      -> SkillTest(FALSE, FALSE, FALSE, FALSE, 2, 1, 13, FALSE)
               [] OTHER -> SkillTest(FALSE, FALSE, FALSE, FALSE, SkillWords, 0,
                                     SkillLength, FALSE)

\* skill_similarity: the six methods in the order of the code.  Method 4
\* returns for every skill of several words; 70% is kept in tenths.
skill_similarity(skill, resume_text) ==
    LET t == SkillTests(skill, resume_text)
    IN  IF t.direct THEN TRUE
        ELSE IF t.variation THEN TRUE
        ELSE IF t.alias THEN TRUE
        ELSE IF t.reverse THEN TRUE
        ELSE IF t.words > 1 THEN t.hits * 10 >= t.words * 7
        ELSE t.length > 3 /\ t.fuzzy

\* The skills of the list, in order, for which skill_similarity is `hit`.
SkillsWhere(job_skills, resume_text, hit) ==
    SelectSeq(job_skills, LAMBDA skill : skill_similarity(skill, resume_text) = hit)

\* Mutation: an empty requirement scores full marks, as calculate_tech_fit does.
SkillScoreEmptyFull(job_skills, resume_text) ==
    IF job_skills = <<>>
    THEN [score |-> FullScore * ScoreScale, matched |-> <<>>, unmatched |-> <<>>]
    ELSE LET matched == SkillsWhere(job_skills, resume_text, TRUE)
             unmatched == SkillsWhere(job_skills, resume_text, FALSE)
         IN  [score     |-> (Len(matched) * FullScore * ScoreScale) \div Len(job_skills),
              matched   |-> matched,
              unmatched |-> unmatched]

\* Mutation: the unmatched skills are not collected.
SkillScoreNoUnmatched(job_skills, resume_text) ==
    IF job_skills = <<>>
    THEN [score |-> 0, matched |-> <<>>, unmatched |-> <<>>]
    ELSE LET matched == SkillsWhere(job_skills, resume_text, TRUE)
         IN  [score     |-> (Len(matched) * FullScore * ScoreScale) \div Len(job_skills),
              matched   |-> matched,
              unmatched |-> <<>>]

\* calculate_skill_score; job_skills None or [] is the empty sequence.
calculate_skill_score(job_skills, resume_text) ==
    IF job_skills = <<>>
    THEN [score |-> 0, matched |-> <<>>, unmatched |-> <<>>]
    ELSE LET matched == SkillsWhere(job_skills, resume_text, TRUE)
             unmatched == SkillsWhere(job_skills, resume_text, FALSE)
         IN  [score     |-> (Len(matched) * FullScore * ScoreScale) \div Len(job_skills),
              matched   |-> matched,
              unmatched |-> unmatched]

\* Mutation: a tool counts only when its name is in the resume as it stands.
TechFitDirectOnly(job_tools, resume_text) ==
    IF job_tools = <<>>
    THEN [score |-> FullScore * ScoreScale, matched |-> <<>>, unmatched |-> <<>>]
    ELSE LET matched == SelectSeq(job_tools,
                                  LAMBDA tool : SkillTests(tool, resume_text).direct)
             unmatched == SelectSeq(job_tools,
                                    LAMBDA tool : ~SkillTests(tool, resume_text).direct)
         IN  [score     |-> (Len(matched) * FullScore * ScoreScale) \div Len(job_tools),
              matched   |-> matched,
              unmatched |-> unmatched]

\* calculate_tech_fit; job_tools None or [] is the empty sequence.
calculate_tech_fit(job_tools, resume_text) ==
    IF job_tools = <<>>
    THEN [score |-> FullScore * ScoreScale, matched |-> <<>>, unmatched |-> <<>>]
    ELSE LET matched == SkillsWhere(job_tools, resume_text, TRUE)
             unmatched == SkillsWhere(job_tools, resume_text, FALSE)
         IN  [score     |-> (Len(matched) * FullScore * ScoreScale) \div Len(job_tools),
              matched   |-> matched,
              unmatched |-> unmatched]


\* ---------------------------------------------------- qualification score
PerfectScore == 100
DegreeScore == 80
FieldScore == 60
EducationScore == 40
NoMatchScore == 20

\* A requirement and a resume as the tests of calculate_qualification_score
\* see them:
\*   kind            the requirement is None, '', whitespace only, or a text
\*   exact           job_quali in resume_lower
\*   job_degrees     the keys of degree_patterns that are in job_quali
\*   resume_degrees  the keys one of whose patterns re.search finds in the resume
\*   job_fields      the fields that are in job_quali
\*   resume_fields   the fields that are in resume_lower
\*   education_word  one of education_keywords is in resume_lower
\* A requirement that is in the resume has its fields in the resume too.
\* DegreeFamilies are the keys of degree_patterns, StudyFields two of the
\* ten words of `fields`.
Qualifications ==
    LET DegreeFamilies == {"bachelor", "master", "phd", "diploma"}
        StudyFields == {"computer", "science"}
    IN
    {[kind |-> k, exact |-> FALSE, job_degrees |-> {}, resume_degrees |-> {},
      job_fields |-> {}, resume_fields |-> {}, education_word |-> FALSE] :
        k \in {"None", "empty", "blank"}}
    \cup {q \in [kind : {"text"}, exact : BOOLEAN,
                 job_degrees : SUBSET DegreeFamilies, resume_degrees : SUBSET DegreeFamilies,
                 job_fields : SUBSET StudyFields, resume_fields : SUBSET StudyFields,
                 education_word : BOOLEAN] :
            q.exact => q.job_fields \subseteq q.resume_fields}

\* Mutation: the field of study is compared before the degree level.
QualificationFieldFirst(q) ==
    IF q.kind # "text" THEN [score |-> PerfectScore, explanation |-> "no requirement"]
    ELSE IF q.exact THEN [score |-> PerfectScore, explanation |-> "perfect"]
    ELSE IF q.job_fields \cap q.resume_fields # {}
    THEN [score |-> FieldScore, explanation |-> "field"]
    ELSE IF q.job_degrees \cap q.resume_degrees # {}
    THEN [score |-> DegreeScore, explanation |-> "degree"]
    ELSE IF q.education_word THEN [score |-> EducationScore, explanation |-> "some"]
    ELSE [score |-> NoMatchScore, explanation |-> "none"]

calculate_qualification_score(q) ==
    IF q.kind # "text" THEN [score |-> PerfectScore, explanation |-> "no requirement"]
    ELSE IF q.exact THEN [score |-> PerfectScore, explanation |-> "perfect"]
    ELSE IF q.job_degrees \cap q.resume_degrees # {}
    THEN [score |-> DegreeScore, explanation |-> "degree"]
    ELSE IF q.job_fields \cap q.resume_fields # {}
    THEN [score |-> FieldScore, explanation |-> "field"]
    ELSE IF q.education_word THEN [score |-> EducationScore, explanation |-> "some"]
    ELSE [score |-> NoMatchScore, explanation |-> "none"]

\* --------------------------------------------------------- recommendation
ExcellentFrom == 80
GoodFrom == 60
ModerateFrom == 40

\* The largest score, in points, handed to get_recommendation.
MaxScore == 100

\* Scores in hundredths of a point.
Scores == 0..(MaxScore * ScoreScale)

\* Mutation: the comparisons are strict.
RecommendationStrict(score) ==
    IF score > ExcellentFrom * ScoreScale THEN "Excellent match - Highly recommended"
    ELSE IF score > GoodFrom * ScoreScale THEN "Good match - Consider for interview"
    ELSE IF score > ModerateFrom * ScoreScale THEN "Moderate match - Review carefully"
    ELSE "Low match - May not be suitable"

get_recommendation(score) ==
    IF score >= ExcellentFrom * ScoreScale THEN "Excellent match - Highly recommended"
    ELSE IF score >= GoodFrom * ScoreScale THEN "Good match - Consider for interview"
    ELSE IF score >= ModerateFrom * ScoreScale THEN "Moderate match - Review carefully"
    ELSE "Low match - May not be suitable"


\* ================================================================== state
VARIABLES
    nlp,              \* the module-level spaCy model is loaded (nlp is not None)
    all_job_descriptions,   \* the module-level list of parsed job descriptions
    pc,               \* position of the handler parse_career_robust
    req,              \* the request being served
    education,        \* local variables of parse_career_robust
    work_experience,
    parsing_method,
    confidence,
    warnings,
    attempts,         \* history: the strategy try-blocks entered, with outcome
    nlp_calls,        \* history: calls of parse_with_nlp in this request
    escaped,          \* history: an exception reached the outer handler
    returned,         \* history: what the last strategy call that returned gave
    resp,             \* the response returned, NoResp until then
    call,             \* a call of one of the scoring / parsing functions
    ret               \* what that call returned, NoRet until it has

vars == <<nlp, all_job_descriptions, pc, req, education, work_experience, parsing_method, confidence,
          warnings, attempts, nlp_calls, escaped, returned, resp, call, ret>>

\* ----------------------------------------------------------------- inputs
\* What the request body is: absent or not JSON, JSON that is no object, or
\* an object.
Bodies == {"none", "nonobject", "object"}
\* The resume_text field of an object body: absent, falsy ('' and the like),
\* a non-empty string, a non-empty list, a non-zero number.
ResumeTexts == {"absent", "empty", "str", "list", "num"}
\* The user_info field: absent or an object, or any other JSON value.
UserInfos == {"dict", "other"}

\* What the vocabulary tests of the code see in a string resume text:
\*   headers  a recognised section header stands alone on a line
\*   fbEdu    one of the education words of parse_with_basic_fallback
\*   fbExp    one of its work words
\*   vocab    a word of the other keyword tables (edu_kw, exp_kw, the degree,
\*            institution and job-title alternatives of the patterns)
Texts == [headers : BOOLEAN, fbEdu : BOOLEAN, fbExp : BOOLEAN, vocab : BOOLEAN]
NoText == [headers |-> FALSE, fbEdu |-> FALSE, fbExp |-> FALSE, vocab |-> FALSE]
Requests ==
    {[body |-> b, resume_text |-> "absent", user_info |-> "dict", text |-> NoText] :
        b \in Bodies}
    \cup {[body |-> "object", resume_text |-> r, user_info |-> u, text |-> NoText] :
        r \in ResumeTexts \ {"str"}, u \in UserInfos}
    \cup {[body |-> "object", resume_text |-> "str", user_info |-> u, text |-> t] :
        u \in UserInfos, t \in Texts}

NoReq == [body |-> "none", resume_text |-> "absent", user_info |-> "dict", text |-> NoText]

NoResp == [status |-> 0, success |-> FALSE, method |-> NULL, confidence |-> 0,
           education |-> <<>>, work_experience |-> <<>>, warnings |-> <<>>]

ErrorResp(code) == [NoResp EXCEPT !.status = code]

HasEduVocab(t) == t.fbEdu \/ t.vocab
HasExpVocab(t) == t.fbExp \/ t.vocab

\* Blocks of an EXPERIENCE section.
CascadeBlocks ==
    {Block(MonthYear(4, 2025), Present, NoToken, "Developer", "Acme"),
     Block(MonthYear(1, 2020), MonthYear(12, 2022), NoToken, "Intern", NULL),
     Block(NoToken, NoToken, SeasonYear(2022), "", NULL),
     Block(NoToken, NoToken, NoToken, "Developer", "Acme")}

\* Raw month-year matches of extract_dates_from_text.
EduMonthToks == {"Dec 2022"}
ExpMonthToks == {"Jan 2019", "Sepresent 2020"}

\* Group 0 of the degree patterns of extract_education_nlp: a degree word
\* when the text has education vocabulary, else the letters "bs" of another
\* word followed by a word (B\.?[SA]\.? under re.IGNORECASE).
NlpDegree(t) == IF t.fbEdu THEN "Bachelor Degree" ELSE "bs today"

\* Matches of the education patterns of parse_with_multi_patterns.
MultiEduMatches ==
    {[g0 |-> "Bachelor Degree", g1 |-> "State University", year |-> 2020],
     [g0 |-> "Bachelor Degree", g1 |-> "Tech Institute", year |-> 2021]}

\* What a strategy call returned to the handler: the two lists and the base
\* confidence that goes with them.
Returned(strategy, edu, work, base) ==
    [strategy |-> strategy, education |-> edu, work_experience |-> work, confidence |-> base]
NoReturned == Returned(NULL, <<>>, <<>>, 0)

\* No function call in progress, and no value returned yet.
NoCall == [fn |-> "none"]
NoRet == [fn |-> "none"]

\* ------------------------------------------------------------------- Init
Init ==
    /\ nlp \in BOOLEAN
    /\ all_job_descriptions = <<>>
    /\ pc = "idle"
    /\ req = NoReq
    /\ education = <<>>
    /\ work_experience = <<>>
    /\ parsing_method = "unknown"
    /\ confidence = 0
    /\ warnings = <<>>
    /\ attempts = <<>>
    /\ nlp_calls = 0
    /\ escaped = FALSE
    /\ returned = NoReturned
    /\ resp = NoResp
    /\ call = NoCall
    /\ ret = NoRet

\* A request arrives.  Every request starts from fresh locals and shares
\* nothing with the others but nlp, so one request is followed to its response.
Request ==
    /\ pc = "idle"
    /\ req' \in Requests
    /\ pc' = "begin"
    /\ education' = <<>>
    /\ work_experience' = <<>>
    /\ parsing_method' = "unknown"
    /\ confidence' = 0
    /\ warnings' = <<>>
    /\ attempts' = <<>>
    /\ nlp_calls' = 0
    /\ escaped' = FALSE
    /\ returned' = NoReturned
    /\ resp' = NoResp
    /\ UNCHANGED <<nlp, all_job_descriptions, call, ret>>

\* The names resume_text and user_info are bound once both data.get calls
\* have returned, which they do on an object body only.
Bound(r) == r.body = "object"

\* Reading the body, the required-field test and the two log lines.
Begin ==
    /\ pc = "begin"
    /\ IF ~Bound(req)
       THEN \* get_json() raises, or data.get fails on a non-object
            /\ pc' = "emergency"
            /\ escaped' = TRUE
            /\ resp' = resp
       ELSE IF req.resume_text \in {"absent", "empty"}
       THEN /\ pc' = "done"
            /\ escaped' = escaped
            /\ resp' = ErrorResp(400)
       ELSE IF req.user_info = "other" \/ req.resume_text = "num"
       THEN \* user_info.get(...) or len(resume_text) raises
            /\ pc' = "emergency"
            /\ escaped' = TRUE
            /\ resp' = resp
       ELSE /\ pc' = "s1"
            /\ escaped' = escaped
            /\ resp' = resp
    /\ UNCHANGED <<nlp, all_job_descriptions, req, education, work_experience, parsing_method, confidence,
                   warnings, attempts, nlp_calls, returned, call, ret>>

Outcome(edu, work) == IF edu # <<>> \/ work # <<>> THEN "entries" ELSE "empty"

Attempt(s, o) == [strategy |-> s, outcome |-> o]

\* Mutation: the handler falls into the next except-block whatever the
\* strategy returned.
AdvanceAlways(outcome, next) == next

\* Where the handler goes after a strategy's try-block: on to validation
\* when the strategy produced an entry, else into the next except-block.
Advance(outcome, next) == IF outcome = "entries" THEN "post" ELSE next

SectionNames == {"education", "experience", "other"}

\* The sections extract_sections can find by header: none unless the text
\* has a header line.
HeaderChoices(t) == IF t.headers THEN SUBSET SectionNames ELSE {{}}

\* The buckets extract_sections_by_keywords can fill: a bucket needs a line
\* with a word of its keyword set.
KeywordChoices(t) ==
    {k \in SUBSET {"education", "experience"} :
        /\ "education" \in k => HasEduVocab(t)
        /\ "experience" \in k => HasExpVocab(t)}

\* What the degree, institution and year patterns of parse_education_section
\* find in the education section: group 1 of each match, NULL or 0 for none.
\* A degree or institution match needs an education word.
NoEduFind == [dm |-> NULL, im |-> NULL, ym |-> 0]
EduFinds(t) ==
    IF HasEduVocab(t)
    THEN [dm : {NULL, "Bachelor Degree"}, im : {NULL, "State University"}, ym : {0, 2020}]
    ELSE [dm : {NULL}, im : {NULL}, ym : {0, 2020}]

\* Strategy 1: clean_resume_text, extract_sections, parse_education_section,
\* parse_experience_section.  On a text that is no string clean_resume_text
\* raises before anything is assigned.
Strategy1 ==
    /\ pc = "s1"
    /\ IF req.resume_text = "str"
       THEN \E hdrSecs \in HeaderChoices(req.text), kwSecs \in KeywordChoices(req.text) :
            LET secs == extract_sections(hdrSecs, kwSecs)
            IN  \E e \in (IF "education" \in secs THEN EduFinds(req.text) ELSE {NoEduFind}),
                   blocks \in (IF "experience" \in secs
                               THEN SeqUpTo(CascadeBlocks, MaxBlocks) ELSE {<<>>}),
                   today \in (IF "experience" \in secs THEN Todays ELSE {CHOOSE d \in Todays : TRUE}) :
                LET edu == parse_education_section(secs, e.dm, e.im, e.ym)
                    work == parse_experience_section(secs, blocks, today)
                    o == Outcome(edu, work)
                IN  /\ education' = edu
                    /\ work_experience' = work
                    /\ parsing_method' = "fixed_section"
                    /\ confidence' = FixedConfidence
                    /\ returned' = Returned("fixed_section", edu, work, FixedConfidence)
                    /\ attempts' = Append(attempts, Attempt("fixed_section", o))
                    /\ warnings' = IF o = "entries" THEN warnings
                                   ELSE Append(warnings, "Fixed section parsing failed")
                    /\ pc' = Advance(o, "s2")
       ELSE /\ attempts' = Append(attempts, Attempt("fixed_section", "raised"))
            /\ warnings' = Append(warnings, "Fixed section parsing failed")
            /\ pc' = "s2"
            /\ UNCHANGED <<education, work_experience, parsing_method, confidence, returned>>
    /\ UNCHANGED <<nlp, all_job_descriptions, req, nlp_calls, escaped, resp, call, ret>>

\* What one NLP extractor finds: whether find_section returns a section,
\* (a substring test on the first 50 characters of each section, which a
\* word such as "fireworks" or "disqualification" passes), and in it the
\* first list (institutions / companies, from the entities),
\* the second list (degrees / job titles, from the patterns) and the raw
\* month-year date matches.  Institutions are entities naming a university,
\* college, institute or school; job titles pass is_likely_job_title.
NlpFind(found, as, bs, toks) == [found |-> found, as |-> as, bs |-> bs, toks |-> toks]
NoNlpFind == NlpFind(FALSE, <<>>, <<>>, <<>>)

NlpEduFinds(t) ==
    {NoNlpFind} \cup
    {NlpFind(TRUE, as, bs, toks) :
        as \in (IF HasEduVocab(t) THEN SeqUpTo({"State University"}, MaxFound) ELSE {<<>>}),
        bs \in SeqUpTo({NlpDegree(t)}, MaxFound),
        toks \in SeqUpTo(EduMonthToks, MaxFound)}

NlpExpFinds(t) ==
    {NoNlpFind} \cup
    {NlpFind(TRUE, as, bs, toks) :
        as \in SeqUpTo({"Acme"}, MaxFound),
        bs \in (IF HasExpVocab(t) THEN SeqUpTo({"Software Engineer"}, MaxFound) ELSE {<<>>}),
        toks \in SeqUpTo(ExpMonthToks, MaxFound)}

\* Mutation: the guard is dropped and parse_with_nlp is always called.
NlpAlwaysCalled == TRUE

\* The test `if nlp:` that guards the call of parse_with_nlp.
NlpAvailable == nlp

\* Strategy 2: parse_with_nlp when the model is loaded.  The model raises on
\* a text that is no string and may raise on a string (a text longer than
\* its max_length); the assignment of the three results is one statement.
Strategy2 ==
    /\ pc = "s2"
    /\ IF ~NlpAvailable
       THEN /\ attempts' = Append(attempts, Attempt("nlp", "raised"))
            /\ warnings' = Append(warnings, "NLP parsing failed")
            /\ pc' = "s3"
            /\ UNCHANGED <<education, work_experience, parsing_method, confidence, nlp_calls,
                           returned>>
       ELSE /\ nlp_calls' = nlp_calls + 1
            /\ \/ /\ attempts' = Append(attempts, Attempt("nlp", "raised"))
                  /\ warnings' = Append(warnings, "NLP parsing failed")
                  /\ pc' = "s3"
                  /\ UNCHANGED <<education, work_experience, parsing_method, confidence,
                                 returned>>
               \/ /\ req.resume_text = "str"
                  /\ nlp      \* parse_with_nlp raises when nlp is None
                  /\ \E ef \in NlpEduFinds(req.text), xf \in NlpExpFinds(req.text) :
                     LET edu == extract_education_nlp(ef.found, ef.as, ef.bs, ef.toks)
                         work == extract_work_experience_nlp(xf.found, xf.as, xf.bs, xf.toks)
                         o == Outcome(edu, work)
                     IN  /\ education' = edu
                         /\ work_experience' = work
                         /\ confidence' = NlpConfidence(edu, work)
                         /\ returned' = Returned("nlp", edu, work, NlpConfidence(edu, work))
                         /\ parsing_method' = "nlp"
                         /\ attempts' = Append(attempts, Attempt("nlp", o))
                         /\ warnings' = IF o = "entries" THEN warnings
                                        ELSE Append(warnings, "NLP parsing failed")
                         /\ pc' = Advance(o, "s3")
    /\ UNCHANGED <<nlp, all_job_descriptions, req, escaped, resp, call, ret>>

\* Strategy 3: parse_with_multi_patterns; re.finditer raises on a text that
\* is no string, before anything is assigned.
Strategy3 ==
    /\ pc = "s3"
    /\ IF req.resume_text = "str"
       THEN \E eduMatches \in (IF HasEduVocab(req.text)
                               THEN SeqUpTo(MultiEduMatches, MaxFound) ELSE {<<>>}),
               expMatches \in (IF HasExpVocab(req.text)
                               THEN SeqUpTo(MultiExpMatches, MaxFound) ELSE {<<>>}) :
            \E today \in (IF expMatches # <<>> THEN Todays ELSE {CHOOSE d \in Todays : TRUE}) :
            LET r == parse_with_multi_patterns(eduMatches, expMatches, today)
                o == Outcome(r[1], r[2])
            IN  /\ education' = r[1]
                /\ work_experience' = r[2]
                /\ parsing_method' = "multi-pattern"
                /\ confidence' = MultiConfidence
                /\ returned' = Returned("multi-pattern", r[1], r[2], MultiConfidence)
                /\ attempts' = Append(attempts, Attempt("multi-pattern", o))
                /\ warnings' = IF o = "entries" THEN warnings
                               ELSE Append(warnings, "Multi-pattern parsing failed")
                /\ pc' = Advance(o, "s4")
       ELSE /\ attempts' = Append(attempts, Attempt("multi-pattern", "raised"))
            /\ warnings' = Append(warnings, "Multi-pattern parsing failed")
            /\ pc' = "s4"
            /\ UNCHANGED <<education, work_experience, parsing_method, confidence, returned>>
    /\ UNCHANGED <<nlp, all_job_descriptions, req, nlp_calls, escaped, resp, call, ret>>

\* Strategy 4: parse_with_basic_fallback, outside any inner try-block.  On a
\* text that is no string resume_text.lower() raises to the outer handler,
\* after the "Multi-pattern parsing failed" warning has been appended.
Strategy4 ==
    /\ pc = "s4"
    /\ IF req.resume_text = "str"
       THEN LET r == parse_with_basic_fallback(req.text.fbEdu, req.text.fbExp)
            IN  /\ education' = r[1]
                /\ work_experience' = r[2]
                /\ parsing_method' = "fallback"
                /\ confidence' = FallbackConfidence
                /\ returned' = Returned("fallback", r[1], r[2], FallbackConfidence)
                /\ attempts' = Append(attempts, Attempt("fallback", Outcome(r[1], r[2])))
                /\ warnings' = Append(warnings, "Used basic fallback parsing")
                /\ pc' = "post"
                /\ escaped' = escaped
       ELSE /\ attempts' = Append(attempts, Attempt("fallback", "raised"))
            /\ pc' = "emergency"
            /\ escaped' = TRUE
            /\ UNCHANGED <<education, work_experience, parsing_method, confidence, warnings,
                           returned>>
    /\ UNCHANGED <<nlp, all_job_descriptions, req, nlp_calls, resp, call, ret>>

\* The validation pass, calculate_confidence and the success response.
PostProcess ==
    /\ pc = "post"
    /\ LET edu == validate_and_clean_education(education)
           work == validate_and_clean_work_experience(work_experience)
       IN  /\ education' = edu
           /\ work_experience' = work
           /\ resp' = [status |-> 200, success |-> TRUE, method |-> parsing_method,
                       confidence |-> calculate_confidence(edu, work, confidence),
                       education |-> edu, work_experience |-> work, warnings |-> warnings]
    /\ pc' = "done"
    /\ UNCHANGED <<nlp, all_job_descriptions, req, parsing_method, confidence, warnings, attempts, nlp_calls, escaped,
                   returned, call, ret>>

\* The emergency call parse_with_basic_fallback(resume_text) raises when the
\* name resume_text is unbound or bound to something that is no string.
EmergencyRaises(r) == ~Bound(r) \/ r.resume_text # "str"

\* Mutation: the outer except-block reports the failure at once.
EmergencyGivesUp(r) == ErrorResp(500)

\* Mutation: the outer except-block reports no warning.
EmergencyNoWarning(r) ==
    IF EmergencyRaises(r) THEN ErrorResp(500)
    ELSE LET f == parse_with_basic_fallback(r.text.fbEdu, r.text.fbExp)
         IN  [status |-> 200, success |-> TRUE, method |-> "emergency_fallback",
              confidence |-> EmergencyConfidence,
              education |-> f[1], work_experience |-> f[2], warnings |-> <<>>]

\* Mutation: the outer except-block returns the lists the cascade left in
\* the handler's locals.
EmergencyKeepsLocals(r) ==
    IF EmergencyRaises(r) THEN ErrorResp(500)
    ELSE [status |-> 200, success |-> TRUE, method |-> "emergency_fallback",
          confidence |-> EmergencyConfidence,
          education |-> education, work_experience |-> work_experience,
          warnings |-> <<"Critical parsing error">>]

\* The response of the outer except-block.
EmergencyResponse(r) ==
    IF EmergencyRaises(r) THEN ErrorResp(500)
    ELSE LET f == parse_with_basic_fallback(r.text.fbEdu, r.text.fbExp)
         IN  [status |-> 200, success |-> TRUE, method |-> "emergency_fallback",
              confidence |-> EmergencyConfidence,
              education |-> f[1], work_experience |-> f[2],
              warnings |-> <<"Critical parsing error">>]

Emergency ==
    /\ pc = "emergency"
    /\ resp' = EmergencyResponse(req)
    /\ education' = resp'.education
    /\ work_experience' = resp'.work_experience
    /\ returned' = IF EmergencyRaises(req) THEN returned
                   ELSE LET f == parse_with_basic_fallback(req.text.fbEdu, req.text.fbExp)
                        IN  Returned("emergency_fallback", f[1], f[2], EmergencyConfidence)
    /\ pc' = "done"
    /\ UNCHANGED <<nlp, all_job_descriptions, req, parsing_method, confidence, warnings, attempts, nlp_calls, escaped,
                   call, ret>>

Next ==
    \/ Request
    \/ Begin
    \/ Strategy1
    \/ Strategy2
    \/ Strategy3
    \/ Strategy4
    \/ PostProcess
    \/ Emergency

Spec == Init /\ [][Next]_vars

\* ============================================ calls of single functions
\* The scoring and parsing functions are pure: one call is followed from
\* its arguments to its return value.
Calls(fn) ==
    CASE fn = "calculate_experience_score" ->
           [fn : {fn}, job_experience : JobExperiences, resume_text : ExperienceMatches]
      [] fn = "calculate_skill_score" ->
           [fn : {fn}, job_skills : SeqUpTo(SkillNames, MaxSkills), resume_text : SkillResumes]
      [] fn = "calculate_tech_fit" ->
           [fn : {fn}, job_tools : SeqUpTo(SkillNames, MaxSkills), resume_text : SkillResumes]
      [] fn = "calculate_qualification_score" -> [fn : {fn}, q : Qualifications]
      [] fn = "get_recommendation" -> [fn : {fn}, score : Scores]
      [] fn = "parse_single_date" -> [fn : {fn}, date_str : TokenStrings, today : Todays]
      [] fn = "parse_date_range" -> [fn : {fn}, date_str : DateStrings, today : Todays]
      [] fn = "parse_date_range_multi" -> [fn : {fn}, date_str : DateStrings, today : Todays]
      [] fn = "extract_job_entries" ->
           [fn : {fn},
            blocks : SeqUpTo(CascadeBlocks
                             \cup {Block(NoToken, NoToken, BareYear(2019), "Developer", "Acme"),
                                   Block(BareYear(2019), BareYear(2021), NoToken, "Intern", NULL)},
                             MaxBlocks),
            today : Todays]
      [] fn = "extract_sections" -> [fn : {fn}, text : SeqUpTo(ResumeLines, MaxLines)]
      [] fn = "parse_education_section" ->
           [fn : {fn}, dm : {NULL, "Bachelor Degree"}, im : {NULL, "State University"},
            ym : {0, 2020}]

FunctionInit ==
    /\ nlp \in BOOLEAN
    /\ all_job_descriptions = <<>>
    /\ pc = "idle"
    /\ req = NoReq
    /\ education = <<>>
    /\ work_experience = <<>>
    /\ parsing_method = "unknown"
    /\ confidence = 0
    /\ warnings = <<>>
    /\ attempts = <<>>
    /\ nlp_calls = 0
    /\ escaped = FALSE
    /\ returned = NoReturned
    /\ resp = NoResp
    /\ \E fn \in {"calculate_experience_score", "calculate_skill_score",
                  "calculate_qualification_score", "get_recommendation",
                  "parse_single_date", "parse_date_range", "parse_date_range_multi",
                  "extract_job_entries", "extract_sections",
                  "parse_education_section", "calculate_tech_fit"} : call \in Calls(fn)
    /\ ret = NoRet

\* The called function fn returns value; nothing else changes.
Return(fn, value) ==
    /\ call.fn = fn
    /\ ret.fn = "none"
    /\ ret' = [fn |-> fn, value |-> value]
    /\ UNCHANGED <<nlp, all_job_descriptions, pc, req, education, work_experience, parsing_method, confidence,
                   warnings, attempts, nlp_calls, escaped, returned, resp, call>>

CallExperienceScore ==
    Return("calculate_experience_score",
           calculate_experience_score(call.job_experience, call.resume_text))

CallSkillScore ==
    Return("calculate_skill_score", calculate_skill_score(call.job_skills, call.resume_text))

CallTechFit ==
    Return("calculate_tech_fit", calculate_tech_fit(call.job_tools, call.resume_text))

CallQualificationScore ==
    Return("calculate_qualification_score", calculate_qualification_score(call.q))

CallRecommendation == Return("get_recommendation", get_recommendation(call.score))

CallParseSingleDate ==
    Return("parse_single_date", parse_single_date(call.date_str, call.today))

CallParseDateRange ==
    Return("parse_date_range", parse_date_range(call.date_str, call.today))

CallParseDateRangeMulti ==
    Return("parse_date_range_multi", parse_date_range_multi(call.date_str, call.today))

CallExtractJobEntries ==
    Return("extract_job_entries", extract_job_entries(call.blocks, call.today))

\* extract_sections as the strategies call it, on the cleaned text.
CallExtractSections ==
    Return("extract_sections", ExtractSections(clean_resume_text(call.text)))

\* parse_education_section on a mapping with an education section, and
\* validate_and_clean_education on its result, as the post-processing of
\* parse_career_robust applies it.
CallParseEducationSection ==
    Return("parse_education_section",
           validate_and_clean_education(
               parse_education_section({"education"}, call.dm, call.im, call.ym)))

FunctionNext ==
    \/ CallExperienceScore
    \/ CallSkillScore
    \/ CallQualificationScore
    \/ CallRecommendation
    \/ CallParseSingleDate
    \/ CallParseDateRange
    \/ CallParseDateRangeMulti
    \/ CallExtractJobEntries
    \/ CallExtractSections
    \/ CallParseEducationSection
    \/ CallTechFit

FunctionSpec == FunctionInit /\ [][FunctionNext]_vars

\* ===================================================== upload_job_desc
\* The list is capped for the check: an upload that would grow it over
\* MaxJobs entries is not taken.
MaxJobs == 3
\* The longest JSON list of job records uploaded.
MaxRecords == 2

\* The elements of an uploaded JSON list: two job records, and a value that
\* is no job record.
JobRecords == {"developer", "analyst", "malformed"}

\* The multipart field job_description of a request: absent; a .json file
\* whose content is no JSON, a JSON value that cannot be iterated, or a list;
\* a .txt file whose bytes decode as UTF-8 or do not; any other file name.
Uploads ==
    {[kind |-> "none"], [kind |-> "other"]}
    \cup {[kind |-> "json", parses |-> FALSE, iterable |-> FALSE, records |-> <<>>],
          [kind |-> "json", parses |-> TRUE, iterable |-> FALSE, records |-> <<>>]}
    \cup {[kind |-> "json", parses |-> TRUE, iterable |-> TRUE, records |-> rs] :
              rs \in SeqUpTo(JobRecords, MaxRecords)}
    \cup {[kind |-> "txt", decodes |-> d] : d \in BOOLEAN}

\* parse_job_description(job): the parsed job; it raises on a value that is
\* no job record.
parse_job_description(job) ==
    [raised |-> job = "malformed", value |-> [source |-> "json", job |-> job]]

\* parse_text_job_description(file_content).
parse_text_job_description == [source |-> "txt", job |-> "text"]

\* The loop `for job in job_descriptions` on the list so far: each record is
\* parsed and appended in turn, until one raises.
RECURSIVE ParseAndAppend(_, _)
ParseAndAppend(jobs, records) ==
    IF records = <<>> THEN [jobs |-> jobs, raised |-> FALSE]
    ELSE LET parsed_job == parse_job_description(Head(records))
         IN  IF parsed_job.raised THEN [jobs |-> jobs, raised |-> TRUE]
             ELSE ParseAndAppend(Append(jobs, parsed_job.value), Tail(records))

UploadError == [status |-> 400, job_descriptions |-> <<>>]

\* The handler upload_job_desc, from the request to its response.
upload_job_desc ==
    \E file \in Uploads :
        LET loop == ParseAndAppend(all_job_descriptions, file.records)
            jobs == CASE file.kind = "json" /\ file.parses /\ file.iterable -> loop.jobs
                      [] file.kind = "txt" /\ file.decodes ->
                           Append(all_job_descriptions, parse_text_job_description)
                      [] OTHER -> all_job_descriptions
            failed == CASE file.kind = "json" ->
                             ~file.parses \/ ~file.iterable \/ loop.raised
                        [] file.kind = "txt" -> ~file.decodes
                        [] OTHER -> TRUE
        IN  /\ Len(jobs) <= MaxJobs
            /\ all_job_descriptions' = jobs
            /\ call' = [fn |-> "upload_job_desc", file |-> file]
            /\ ret' = [fn |-> "upload_job_desc",
                       value |-> IF failed THEN UploadError
                                 ELSE [status |-> 200, job_descriptions |-> jobs]]
            /\ UNCHANGED <<nlp, pc, req, education, work_experience, parsing_method,
                           confidence, warnings, attempts, nlp_calls, escaped, returned, resp>>

UploadNext == upload_job_desc

UploadSpec == Init /\ [][UploadNext]_vars

\* ===================================================== match_resume_job
\* The most skills a job names and the most distinct words, stop words set
\* aside, its description has.
MaxJobSkills == 7
MaxJobWords == 37

\* What decides the four sub-scores of a match: how many of the job's skills
\* the resume matches, how many of the description's words it has, and the
\* experience and the qualification score.
MatchInputs ==
    {i \in [skills : 0..MaxJobSkills, matched : 0..MaxJobSkills,
            words : 0..MaxJobWords, shared : 0..MaxJobWords,
            experience : {25, 50, 75, FullScore},
            qualification : {NoMatchScore, EducationScore, FieldScore, DegreeScore,
                             PerfectScore}] :
        i.matched <= i.skills /\ i.shared <= i.words}

\* match_jobs(resume_text, [job_data])[0]["score"]: the arithmetic mean of
\* the skill, experience, qualification and contextual score, as the exact
\* fraction num / den.  An empty skill list and an empty description score 0.
match_jobs(i) ==
    LET n == Max(i.skills, 1)
        w == Max(i.words, 1)
    IN  [num |-> FullScore * i.matched * w + FullScore * i.shared * n
                 + (i.experience + i.qualification) * n * w,
         den |-> 4 * n * w]

\* round(score, 2), in hundredths: the nearest hundredth, and either
\* neighbour when the fraction is exactly half-way (the binary float then
\* lies on one or the other side).
Round2(score) ==
    LET up == (2 * ScoreScale * score.num + score.den) \div (2 * score.den)
    IN  IF (2 * ScoreScale * score.num + score.den) % (2 * score.den) = 0
        THEN {up - 1, up} ELSE {up}

\* The success response of match_resume_job: match_percentage is the rounded
\* score, the recommendation is taken from the score itself.  The
\* comparisons of get_recommendation are against whole numbers, which the
\* score reaches exactly when its hundredths, rounded down, do.
match_resume_job ==
    /\ call.fn = "match_resume_job"
    /\ ret.fn = "none"
    /\ LET score == match_jobs(call.job)
       IN  \E match_percentage \in Round2(score) :
               ret' = [fn |-> "match_resume_job",
                       value |-> [match_percentage |-> match_percentage,
                                  recommendation |->
                                      get_recommendation((ScoreScale * score.num)
                                                         \div score.den)]]
    /\ UNCHANGED <<nlp, all_job_descriptions, pc, req, education, work_experience,
                   parsing_method, confidence, warnings, attempts, nlp_calls, escaped,
                   returned, resp, call>>

MatchInit ==
    /\ nlp = FALSE
    /\ all_job_descriptions = <<>>
    /\ pc = "idle"
    /\ req = NoReq
    /\ education = <<>>
    /\ work_experience = <<>>
    /\ parsing_method = "unknown"
    /\ confidence = 0
    /\ warnings = <<>>
    /\ attempts = <<>>
    /\ nlp_calls = 0
    /\ escaped = FALSE
    /\ returned = NoReturned
    /\ resp = NoResp
    /\ call \in [fn : {"match_resume_job"}, job : MatchInputs]
    /\ ret = NoRet

MatchNext == match_resume_job

MatchSpec == MatchInit /\ [][MatchNext]_vars

\* ================================================================= claims
Done == pc = "done"
StringText == req.body = "object" /\ req.resume_text = "str"
Succeeded == Done /\ resp.success

StrategyOrder == <<"fixed_section", "nlp", "multi-pattern", "fallback">>

\* C1: the strategy try-blocks are entered in the order fixed_section, nlp,
\* multi-pattern, fallback, each at most once, and a strategy is entered
\* only when the one before it raised or returned both lists empty; nothing
\* is entered after a strategy that returned an entry.
C1_CascadeOrder ==
    /\ Len(attempts) <= Len(StrategyOrder)
    /\ \A i \in DOMAIN attempts : attempts[i].strategy = StrategyOrder[i]
    /\ \A i \in DOMAIN attempts :
          i < Len(attempts) => attempts[i].outcome \in {"raised", "empty"}
    /\ pc \in {"s2", "s3", "s4"} => attempts[Len(attempts)].outcome \in {"raised", "empty"}

\* The cascade stopped at the third strategy, after one empty result and
\* one exception.
C1_Witness ==
    /\ Done
    /\ Len(attempts) = 3
    /\ attempts[1].outcome = "empty"
    /\ attempts[2].outcome = "raised"
    /\ attempts[3].outcome = "entries"

\* C2: a request with a non-empty string resume text ends with a success
\* response whose confidence lies in [0, 1] (0..100 hundredths), whichever
\* of strategies 1-3 raised or returned nothing.
C2_AlwaysSucceeds ==
    (Done /\ StringText) =>
        /\ resp.success
        /\ resp.status = 200
        /\ resp.confidence \in 0..100

\* An error escaped to the outer handler on a string text, and the request
\* was still answered.
C2_Witness == Done /\ StringText /\ escaped /\ resp.success

\* C3: every success response of the cascade holds at least one education
\* entry or one work-experience entry.
C3_NonEmptyResult ==
    (Succeeded /\ ~escaped) => (resp.education # <<>> \/ resp.work_experience # <<>>)

\* C4: every work-experience entry of a success response has a start_date.
C4_StartDatePresent ==
    Succeeded => \A i \in DOMAIN resp.work_experience :
                    resp.work_experience[i].start_date # NULL

\* C5: in every entry a strategy produces, current implies that end_date is
\* absent.
C5_CurrentHasNoEnd ==
    /\ \A i \in DOMAIN education : education[i].current => education[i].end_date = NULL
    /\ \A i \in DOMAIN work_experience :
          work_experience[i].current => work_experience[i].end_date = NULL

\* C6: when an error reaches the outer handler, the response is the
\* emergency success (method emergency_fallback, confidence 0.1) unless the
\* emergency call of the fallback parser raises itself, which it does exactly
\* when resume_text is unbound or no string; a 500 is returned in no other
\* case.
C6_EmergencyPass ==
    Done =>
        /\ (escaped /\ StringText) =>
              /\ resp.success
              /\ resp.status = 200
              /\ resp.method = "emergency_fallback"
              /\ resp.confidence = EmergencyConfidence
        /\ (escaped /\ ~StringText) => (resp.status = 500 /\ ~resp.success)
        /\ resp.status = 500 => (escaped /\ ~StringText)
        /\ resp.method = "emergency_fallback" => escaped

\* The emergency pass answered a request whose user_info is no object.
C6_Witness ==
    /\ Done
    /\ escaped
    /\ req.user_info = "other"
    /\ resp.method = "emergency_fallback"
    /\ attempts = <<>>

\* C7: a request without the required resume text (no JSON body, a body
\* that is no object, the field absent or empty) is answered 400 and no
\* strategy runs for it.
C7_MissingTextRejected ==
    (Done /\ (req.body # "object" \/ req.resume_text \in {"absent", "empty"})) =>
        (resp.status = 400 /\ attempts = <<>>)

NoCareerKeywords(t) == ~t.fbEdu /\ ~t.fbExp /\ ~t.vocab

\* C8: a string resume with no section header and no career keyword is
\* answered with method fallback or emergency_fallback and a confidence of
\* at most 0.3, with or without the NLP model.
C8_KeywordFreeFallsBack ==
    (Done /\ StringText /\ ~req.text.headers /\ NoCareerKeywords(req.text)) =>
        /\ resp.success
        /\ resp.method \in {"fallback", "emergency_fallback"}
        /\ resp.confidence <= FallbackConfidence

Count(seq, x) == Cardinality({i \in DOMAIN seq : seq[i] = x})

\* C9: without the NLP model parse_with_nlp is never called; once strategy 1
\* has failed the handler records one "NLP parsing failed" warning, goes
\* straight to the multi-pattern strategy, and the method is never "nlp".
C9_NlpSkipped ==
    ~nlp =>
        /\ nlp_calls = 0
        /\ parsing_method # "nlp"
        /\ resp.method # "nlp"
        /\ Len(attempts) >= 2 =>
              /\ attempts[2] = Attempt("nlp", "raised")
              /\ Count(warnings, "NLP parsing failed") = 1
        /\ (Len(attempts) = 2) => pc = "s3"
        /\ (Len(attempts) < 2) => Count(warnings, "NLP parsing failed") = 0

\* Without the model the multi-pattern strategy produced the result.
C9_Witness == ~nlp /\ Done /\ resp.method = "multi-pattern" /\ Len(attempts) = 3

\* Entries that earn the bonus, counted on the response.
BonusEntries(r) ==
    Cardinality({i \in DOMAIN r.education :
                    /\ r.education[i].institution \notin {NULL, ""}
                    /\ r.education[i].degree \notin {NULL, ""}
                    /\ r.education[i].end_date \notin {NULL, ""}})
    + Cardinality({i \in DOMAIN r.work_experience :
                    /\ r.work_experience[i].company \notin {NULL, ""}
                    /\ r.work_experience[i].position \notin {NULL, ""}
                    /\ r.work_experience[i].start_date \notin {NULL, ""}})

\* The confidence of the strategy named by the response.
StrategyBase(r) ==
    CASE r.method = "fixed_section" -> 90
      [] r.method = "multi-pattern" -> 70
      [] r.method = "fallback"      -> 30
      [] r.method = "nlp"           ->
            Min(95, 60 + 10 * Len(r.education) + 5 * Len(r.work_experience))
      [] OTHER                      -> 0

\* C10: the confidence of a cascade response is min(0.95, base + 0.05 per
\* complete education entry + 0.05 per complete work entry), base being the
\* confidence of the strategy that produced the result; it is at most 0.95
\* and at least base.
C10_BlendedConfidence ==
    (Succeeded /\ resp.method # "emergency_fallback") =>
        LET base == StrategyBase(resp)
            raw == base + 5 * BonusEntries(resp)
        IN  /\ confidence = base
            /\ resp.confidence = (IF raw < 95 THEN raw ELSE 95)
            /\ resp.confidence <= 95
            /\ resp.confidence >= base

\* The cap cut a sum above 0.95, and a work entry contributed to it.
C10_Witness ==
    /\ Succeeded
    /\ resp.method = "fixed_section"
    /\ resp.education = <<>>
    /\ Len(resp.work_experience) = 2
    /\ resp.confidence = 95

\* ------------------------------------------------------------------- C11
ExperienceFigures ==
    [r |-> IF call.job_experience.kind = "text"
           THEN extract_experience(call.job_experience.matches) ELSE 0,
     c |-> extract_experience(call.resume_text)]

\* C11: calculate_experience_score, for the required figure r and the
\* candidate figure c extracted from the texts, returns 100 if r = 0, else
\* 100 if c >= r, 75 if r-1 <= c < r, 50 if r-2 <= c < r-1 and 25 otherwise;
\* exactly one of the four tiers applies and the score does not decrease
\* when c grows.
C11_ExperienceTiers ==
    ret.fn = "calculate_experience_score" =>
        LET r == ExperienceFigures.r
            c == ExperienceFigures.c
            score == ret.value.score
            tiers == <<c >= r, r - 1 <= c /\ c < r, r - 2 <= c /\ c < r - 1, c < r - 2>>
        IN  /\ r = 0 => score = 100
            /\ r > 0 => /\ tiers[1] => score = 100
                        /\ tiers[2] => score = 75
                        /\ tiers[3] => score = 50
                        /\ tiers[4] => score = 25
            /\ Cardinality({i \in 1..4 : tiers[i]}) = 1
            /\ \A c2 \in c..MaxYears : ExperienceTier(r, c2).score >= score

C11_Witness ==
    /\ ret.fn = "calculate_experience_score"
    /\ ExperienceFigures = [r |-> 5, c |-> 4]
    /\ ret.value.score = 75

\* ------------------------------------------------------------------- C12
\* C12: calculate_skill_score with no required skills returns (0, [], [])
\* whatever the resume text is.
C12_NoSkillsZero ==
    (ret.fn = "calculate_skill_score" /\ call.job_skills = <<>>) =>
        ret.value = [score |-> 0, matched |-> <<>>, unmatched |-> <<>>]

C12_Witness ==
    /\ ret.fn = "calculate_skill_score"
    /\ call.job_skills = <<>>
    /\ call.resume_text = "resume"
    /\ ret.value.score = 0

\* ------------------------------------------------------------------- C13
\* C13: for a non-empty list of required skills the matched and unmatched
\* lists partition the required list: each holds, in input order, the
\* skills for which skill_similarity holds, respectively fails, every
\* required skill is in exactly one of them, and the score is
\* len(matched) / len(required) * 100, within [0, 100].
C13_SkillPartition ==
    (ret.fn = "calculate_skill_score" /\ call.job_skills # <<>>) =>
        LET required == call.job_skills
            matched == ret.value.matched
            unmatched == ret.value.unmatched
            hit(skill) == skill_similarity(skill, call.resume_text)
        IN  /\ matched = SelectSeq(required, LAMBDA skill : hit(skill))
            /\ unmatched = SelectSeq(required, LAMBDA skill : ~hit(skill))
            /\ \A skill \in SkillNames :
                /\ Count(required, skill) = Count(matched, skill) + Count(unmatched, skill)
                /\ Count(matched, skill) = 0 \/ Count(unmatched, skill) = 0
            /\ ret.value.score = (Len(matched) * 100 * ScoreScale) \div Len(required)
            /\ ret.value.score \in 0..(100 * ScoreScale)

C13_Witness ==
    /\ ret.fn = "calculate_skill_score"
    /\ call.job_skills = <<"Rust", "AWS", "Terraform">>
    /\ ret.value.matched = <<"AWS", "Terraform">>
    /\ ret.value.unmatched = <<"Rust">>
    /\ ret.value.score = 6666

\* ------------------------------------------------------------------- C14
\* C14: calculate_qualification_score returns the score of the first of
\* these that holds: no requirement (100), the requirement is in the resume
\* (100), a degree family of the requirement is in the resume (80), a field
\* of study is shared (60), the resume has an education word (40), else 20;
\* never a lower score when the condition of a higher one holds.
C14_QualificationTiers ==
    ret.fn = "calculate_qualification_score" =>
        LET q == call.q
            score == ret.value.score
            none == q.kind \in {"None", "empty", "blank"}
            degree == q.job_degrees \cap q.resume_degrees # {}
            field == q.job_fields \cap q.resume_fields # {}
        IN  /\ score \in {100, 80, 60, 40, 20}
            /\ score = IF none \/ q.exact THEN 100
                       ELSE IF degree THEN 80
                       ELSE IF field THEN 60
                       ELSE IF q.education_word THEN 40
                       ELSE 20
            /\ (~none /\ degree) => score >= 80
            /\ (~none /\ field) => score >= 60
            /\ (~none /\ q.education_word) => score >= 40

C14_Witness ==
    /\ ret.fn = "calculate_qualification_score"
    /\ call.q.kind = "text"
    /\ ~call.q.exact
    /\ call.q.job_degrees \cap call.q.resume_degrees = {"master"}
    /\ call.q.job_fields \cap call.q.resume_fields = {"computer"}
    /\ ret.value.score = 80

\* ------------------------------------------------------------------- C15
Tier(recommendation) ==
    CASE recommendation = "Excellent match - Highly recommended" -> 4
      [] recommendation = "Good match - Consider for interview" -> 3
      [] recommendation = "Moderate match - Review carefully"   -> 2
      [] recommendation = "Low match - May not be suitable"     -> 1

\* C15: get_recommendation gives the Excellent tier from 80 up, the Good
\* tier from 60 to below 80, the Moderate tier from 40 to below 60 and the
\* Low tier below 40, and the tier does not fall when the score grows.
C15_RecommendationTiers ==
    ret.fn = "get_recommendation" =>
        LET score == call.score
            tier == Tier(ret.value)
        IN  /\ tier = 4 <=> score >= 80 * ScoreScale
            /\ tier = 3 <=> (60 * ScoreScale <= score /\ score < 80 * ScoreScale)
            /\ tier = 2 <=> (40 * ScoreScale <= score /\ score < 60 * ScoreScale)
            /\ tier = 1 <=> score < 40 * ScoreScale
            /\ (score + 1) \in Scores => Tier(get_recommendation(score + 1)) >= tier

C15_Witness ==
    /\ ret.fn = "get_recommendation"
    /\ call.score = 80 * ScoreScale
    /\ ret.value = "Excellent match - Highly recommended"

\* ------------------------------------------------------------------- C16
\* C16: parse_date_range on "<month> <year> - <month> <year>" returns the
\* first day of both months with current false, and on "<month> <year> -
\* Present" the first day of the start month, no end and current true,
\* whatever the day of the call.
C16_FirstOfMonth ==
    ret.fn = "parse_date_range" =>
        /\ call.date_str = DateText.AprilToPresent =>
             ret.value = [start_date |-> "2025-04-01", end_date |-> NULL, current |-> TRUE]
        /\ call.date_str = DateText.JanToDec =>
             ret.value = [start_date |-> "2020-01-01", end_date |-> "2022-12-01",
                          current |-> FALSE]

\* ------------------------------------------------------------------- C17
DatesIn(y, m) == {IsoDate(y, m, d) : d \in 1..DaysIn(m, y)}

\* C17: parse_single_date turns a season and a year into a date in the
\* month of the season (Spring March, Summer June, Fall September, Winter
\* December), and an experience block dated only by a season gets a
\* start_date in the month of the season.
C17_SeasonMonths ==
    /\ ret.fn = "parse_single_date" =>
        /\ call.date_str = DateText.SpringAlone => ret.value \in DatesIn(2021, 3)
        /\ call.date_str = DateText.SummerAlone => ret.value \in DatesIn(2022, 6)
        /\ call.date_str = DateText.FallAlone => ret.value \in DatesIn(2023, 9)
        /\ call.date_str = DateText.WinterAlone => ret.value \in DatesIn(2020, 12)
    /\ (/\ ret.fn = "extract_job_entries"
        /\ Len(call.blocks) = 1
        /\ ~HasRange(call.blocks[1])
        /\ call.blocks[1].sm.kind = "sy") =>
            /\ Len(ret.value) = 1
            /\ \E m \in {3, 6, 9, 12} :
                 ret.value[1].start_date \in DatesIn(call.blocks[1].sm.year, m)

\* ------------------------------------------------------------------- C18
\* The date token before the separator of a range string, and the token or
\* word after it.
StartToken(s) ==
    CASE s = DateText.AprilToPresent -> SubSeq(s, 1, 10)
      [] s = DateText.JanToDec -> SubSeq(s, 1, 8)
      [] s = DateText.JanToCurrent -> SubSeq(s, 1, 8)
      [] s = DateText.OctoberToPresent -> SubSeq(s, 1, 12)
      [] s = DateText.OctoberToDec -> SubSeq(s, 1, 12)
      [] s = DateText.JanWordToDec -> SubSeq(s, 1, 8)
      [] s = DateText.AugWordToPresent -> SubSeq(s, 1, 8)
      [] s = DateText.OctEnDashNov -> SubSeq(s, 1, 8)
      [] s = DateText.FebEmDashMar -> SubSeq(s, 1, 8)
      [] s = DateText.YearToYear -> SubSeq(s, 1, 4)
      [] s = DateText.YearWordToYear -> SubSeq(s, 1, 4)
      [] s = DateText.NumericToPresent -> SubSeq(s, 1, 7)
      [] s = DateText.SummerToFall -> SubSeq(s, 1, 11)

EndToken(s) ==
    CASE s = DateText.AprilToPresent -> SubSeq(s, 14, 20)
      [] s = DateText.JanToDec -> SubSeq(s, 12, 19)
      [] s = DateText.JanToCurrent -> SubSeq(s, 12, 18)
      [] s = DateText.OctoberToPresent -> SubSeq(s, 16, 22)
      [] s = DateText.OctoberToDec -> SubSeq(s, 16, 23)
      [] s = DateText.JanWordToDec -> SubSeq(s, 13, 20)
      [] s = DateText.AugWordToPresent -> SubSeq(s, 13, 19)
      [] s = DateText.OctEnDashNov -> SubSeq(s, 12, 19)
      [] s = DateText.FebEmDashMar -> SubSeq(s, 12, 19)
      [] s = DateText.YearToYear -> SubSeq(s, 8, 11)
      [] s = DateText.YearWordToYear -> SubSeq(s, 9, 12)
      [] s = DateText.NumericToPresent -> SubSeq(s, 11, 17)
      [] s = DateText.SummerToFall -> SubSeq(s, 15, 23)

\* C18: on "<date token> <separator> <date token | Present | Current>",
\* the separator a hyphen, an en dash, an em dash or the word "to", both
\* range parsers take the start from the whole token before the separator
\* and the end from the whole token after it.
C18_WholeTokens ==
    /\ (ret.fn = "parse_date_range" /\ call.date_str \in RangeStrings) =>
        /\ ret.value.start_date = parse_single_date(StartToken(call.date_str), call.today)
        /\ ret.value.end_date = parse_single_date(EndToken(call.date_str), call.today)
        /\ ret.value.current = IsCurrent(EndToken(call.date_str))
    /\ (ret.fn = "parse_date_range_multi" /\ call.date_str \in RangeStrings) =>
        /\ ret.value[1] = DateutilParse(Lex(StartToken(call.date_str)), call.today)
        /\ ret.value[2] = DateutilParse(Lex(EndToken(call.date_str)), call.today)

\* ------------------------------------------------------------------- C19
AllHeaders == UNION {SectionHeaders(name) : name \in SectionKeys}

\* The line is a header token and nothing else.
StandsAlone(line) == FoldLine(line) \in AllHeaders

\* The line holds a header word among other words.
HeaderInProse(line) ==
    /\ ~StandsAlone(line)
    /\ \E h \in AllHeaders : HasSub(FoldLine(line), h)

\* C19: a section found by header starts at a line that is a header token
\* and nothing else, also after clean_resume_text; a line of prose that
\* holds a header word starts no section and ends the content of none.
C19_HeadersLineAnchored ==
    (ret.fn = "extract_sections" /\ ret.value.by = "headers") =>
        LET text == clean_resume_text(call.text)
            sections == ret.value.sections
        IN  \A name \in DOMAIN sections :
                LET sec == sections[name]
                IN  /\ StandsAlone(text[sec.start])
                    /\ ~HeaderInProse(text[sec.start])
                    /\ sec.stop <= Len(text) => ~HeaderInProse(text[sec.stop])
                    /\ \A k \in (sec.start + 1)..Len(text) :
                         (\A j \in (sec.start + 1)..k : ~StandsAlone(text[j]))
                             => k < sec.stop

C19_Witness ==
    /\ ret.fn = "extract_sections"
    /\ ret.value.by = "headers"
    /\ call.text = <<<<"Education:">>, <<"5", "years", "of", "experience", "in", "Java">>,
                     <<"Bachelor", "degree", "2020">>>>
    /\ DOMAIN ret.value.sections = {"education"}
    /\ ret.value.sections["education"].start = 1
    /\ Len(ret.value.sections["education"].content) = 2

\* ------------------------------------------------------------------- C20
\* C20: the content of a section found by header ends before the next
\* header line of any of the five sections, canonical name or synonym: no
\* line of the content is a header line.
C20_ContentStopsAtHeader ==
    (ret.fn = "extract_sections" /\ ret.value.by = "headers") =>
        \A name \in DOMAIN ret.value.sections :
            \A i \in DOMAIN ret.value.sections[name].content :
                ~StandsAlone(ret.value.sections[name].content[i])

\* ------------------------------------------------------------------- C21
\* C21: extract_job_entries returns one entry for each block in which a date
\* range or a single date (a bare year included) is found, in order, and
\* none for a block without; every entry has a start_date; the entry of a
\* block whose only date is a bare year starts on January 1 of that year.
C21_DatelessDiscarded ==
    ret.fn = "extract_job_entries" =>
        LET dated == SelectSeq(call.blocks, LAMBDA b : HasRange(b) \/ b.sm.kind # "none")
        IN  /\ Len(ret.value) = Len(dated)
            /\ \A i \in DOMAIN ret.value :
                  /\ ret.value[i].start_date # NULL
                  /\ (~HasRange(dated[i]) /\ dated[i].sm.kind = "y") =>
                        ret.value[i].start_date = ToString(dated[i].sm.year) \o "-01-01"

\* A block without a date before a block whose only date is the year 2019.
C21_Witness ==
    /\ ret.fn = "extract_job_entries"
    /\ call.blocks = <<Block(NoToken, NoToken, NoToken, "Developer", "Acme"),
                       Block(NoToken, NoToken, BareYear(2019), "Developer", "Acme")>>
    /\ Len(ret.value) = 1
    /\ ret.value[1].start_date = "2019-01-01"

\* ------------------------------------------------------------------- C22
\* C22: an education entry built from a degree match without an institution
\* match has the institution "Institution not specified", and one built from
\* an institution match without a degree match has the degree "Degree not
\* specified".
C22_MissingFieldDefaults ==
    (ret.fn = "parse_education_section" /\ ret.value # <<>>) =>
        /\ (call.dm # NULL /\ call.im = NULL) =>
              ret.value[1].institution = "Institution not specified"
        /\ (call.im # NULL /\ call.dm = NULL) =>
              ret.value[1].degree = "Degree not specified"

\* ------------------------------------------------------------------- C23
\* C23: in every success response each work-experience entry has the
\* employment_type "Internship" when its position contains "intern" and
\* "Full-time" when it does not, whichever strategy produced the entry.
C23_EmploymentType ==
    Succeeded =>
        \A i \in DOMAIN resp.work_experience :
            resp.work_experience[i].employment_type =
                IF Contains(resp.work_experience[i].position, "intern")
                THEN "Internship" ELSE "Full-time"

\* ------------------------------------------------------------------- C24
\* The sections of the cleaned text of the call that have a header line
\* followed by content.
FoundByHeader ==
    LET text == clean_resume_text(call.text)
    IN  {name \in SectionKeys :
            /\ HeaderAt(name, text) # 0
            /\ StopAt(name, text) > HeaderAt(name, text) + 1}

\* C24: extract_sections runs the keyword heuristic exactly when header
\* detection finds no section with content; when it finds one, the result
\* holds the sections found by header and no other.
C24_KeywordsOnlyWithoutHeaders ==
    ret.fn = "extract_sections" =>
        /\ ret.value.by = "keywords" <=> FoundByHeader = {}
        /\ ret.value.by = "headers" =>
              /\ DOMAIN ret.value.sections = FoundByHeader
              /\ ret.value.sections = HeaderSections(clean_resume_text(call.text))
        /\ ret.value.by = "keywords" =>
              ret.value.sections = extract_sections_by_keywords(clean_resume_text(call.text))

\* Only a skills section is found by header, in a text whose second line
\* the keyword heuristic would put into an education bucket.
C24_Witness ==
    /\ ret.fn = "extract_sections"
    /\ call.text = <<<<"TECHNICAL", "SKILLS">>, <<"Bachelor", "degree", "2020">>>>
    /\ ret.value.by = "headers"
    /\ DOMAIN ret.value.sections = {"skills"}
    /\ "education" \in DOMAIN extract_sections_by_keywords(call.text)

\* ------------------------------------------------------------------- C25
\* The education and the experience keyword score of the first n lines
\* together.
RECURSIVE CumulativeScore(_, _, _)
CumulativeScore(text, n, name) ==
    IF n = 0 THEN 0
    ELSE CumulativeScore(text, n - 1, name)
         + (IF name = "education" THEN edu_score(text[n]) ELSE exp_score(text[n]))

\* The bucket of line n when the scores compared are those of the line
\* itself (rule "line") or those of all lines read so far (rule
\* "cumulative"); a line without a majority takes the bucket of the line
\* before it, NULL when there is none.
RECURSIVE BucketOf(_, _, _)
BucketOf(text, n, rule) ==
    IF n = 0 THEN NULL
    ELSE LET e == IF rule = "line" THEN edu_score(text[n])
                  ELSE CumulativeScore(text, n, "education")
             x == IF rule = "line" THEN exp_score(text[n])
                  ELSE CumulativeScore(text, n, "experience")
         IN  IF e > x THEN "education"
             ELSE IF x > e THEN "experience"
             ELSE BucketOf(text, n - 1, rule)

\* The result of the keyword heuristic holds, for each bucket, the lines the
\* rule gives it, in input order, and no bucket without lines.
BucketsFollow(rule) ==
    LET text == clean_resume_text(call.text)
        lines(name) == SelectSeq([i \in DOMAIN text |-> i],
                                 LAMBDA i : BucketOf(text, i, rule) = name)
    IN  /\ DOMAIN ret.value.sections =
              {name \in {"education", "experience"} : lines(name) # <<>>}
        /\ \A name \in DOMAIN ret.value.sections :
              ret.value.sections[name].content =
                  [j \in DOMAIN lines(name) |-> text[lines(name)[j]]]

\* C25 as stated: a line goes to the bucket whose keyword score summed over
\* the lines read so far is the higher one, and to the bucket of the line
\* before it when neither is.
C25_CumulativeMajority ==
    (ret.fn = "extract_sections" /\ ret.value.by = "keywords") => BucketsFollow("cumulative")

\* C25, amended: a line goes to the bucket whose keyword score in that line
\* alone is the higher one, and to the bucket of the line before it when
\* neither is; a line before the first line with a majority goes to no
\* bucket; each bucket keeps its lines in input order.
C25_LineMajority ==
    (ret.fn = "extract_sections" /\ ret.value.by = "keywords") => BucketsFollow("line")

\* Two education keywords in the first line, one experience keyword in the
\* second, none in the third: the last two lines are the experience bucket.
C25_Witness ==
    /\ ret.fn = "extract_sections"
    /\ ret.value.by = "keywords"
    /\ call.text = <<<<"Bachelor", "degree", "2020">>, <<"Developer", "at", "Acme", "2020">>,
                     <<"5", "years", "of", "experience", "in", "Java">>>>
    /\ ret.value.sections["education"].content = <<call.text[1]>>
    /\ ret.value.sections["experience"].content = <<call.text[2], call.text[3]>>

\* ------------------------------------------------------------------- C26
\* C26: on a list that is not empty calculate_tech_fit returns the score,
\* the matched and the unmatched list that calculate_skill_score returns for
\* the same arguments; on the empty list both return empty lists,
\* calculate_tech_fit with the score 100 and calculate_skill_score with 0.
C26_TechFitAsSkillScore ==
    ret.fn = "calculate_tech_fit" =>
        LET skill == calculate_skill_score(call.job_tools, call.resume_text)
        IN  IF call.job_tools # <<>>
            THEN ret.value = skill
            ELSE /\ ret.value.score = 100 * ScoreScale
                 /\ skill.score = 0
                 /\ ret.value.matched = skill.matched
                 /\ ret.value.unmatched = skill.unmatched

\* A list matched by alias and by fuzzy comparison only.
C26_Witness ==
    /\ ret.fn = "calculate_tech_fit"
    /\ call.job_tools = <<"Rust", "AWS", "Terraform">>
    /\ call.resume_text = "resume"
    /\ ret.value.matched = <<"AWS", "Terraform">>
    /\ ret.value.score = 6666

\* ------------------------------------------------------------------- C27
\* The warnings each method goes with: one per failed strategy in strategy
\* order, the accuracy notice after them on the fallback, and the one
\* critical-error warning of the emergency fallback.
WarningsOf(method) ==
    CASE method = "fixed_section" -> <<>>
      [] method = "nlp" -> <<"Fixed section parsing failed">>
      [] method = "multi-pattern" -> <<"Fixed section parsing failed", "NLP parsing failed">>
      [] method = "fallback" -> <<"Fixed section parsing failed", "NLP parsing failed",
                                  "Multi-pattern parsing failed", "Used basic fallback parsing">>
      [] method = "emergency_fallback" -> <<"Critical parsing error">>

\* C27: the warnings of a success response are determined by its method: none
\* for "fixed_section", one for "nlp", two for "multi-pattern", four for
\* "fallback" (strategies 1 to 3 in order, then the accuracy notice), one for
\* "emergency_fallback"; no warning names a strategy that succeeded or was
\* not attempted.
C27_WarningsByMethod ==
    Succeeded =>
        /\ resp.method \in {"fixed_section", "nlp", "multi-pattern", "fallback",
                            "emergency_fallback"}
        /\ resp.warnings = WarningsOf(resp.method)

\* A response of the fallback, with its four warnings.
C27_Witness == Succeeded /\ resp.method = "fallback" /\ Len(resp.warnings) = 4

\* ------------------------------------------------------------------- C28
\* C28: the education and work_experience lists of a success response are
\* the validated lists that the strategy named in method returned, and the
\* confidence is computed from that strategy's base confidence; the emergency
\* fallback returns its own lists and base confidence as they are.  Nothing a
\* failed or abandoned strategy assigned reaches the response.
C28_SingleStrategy ==
    Succeeded =>
        /\ returned.strategy = resp.method
        /\ IF resp.method = "emergency_fallback"
           THEN /\ resp.education = returned.education
                /\ resp.work_experience = returned.work_experience
                /\ resp.confidence = returned.confidence
           ELSE /\ resp.education = validate_and_clean_education(returned.education)
                /\ resp.work_experience =
                       validate_and_clean_work_experience(returned.work_experience)
                /\ resp.confidence = calculate_confidence(resp.education,
                                                         resp.work_experience,
                                                         returned.confidence)

\* A multi-pattern response after the fixed-section and the NLP strategy
\* both returned and were abandoned with their method and confidence set.
C28_Witness ==
    /\ Succeeded
    /\ resp.method = "multi-pattern"
    /\ resp.education # <<>>
    /\ \A i \in 1..2 : attempts[i].outcome = "empty"

\* ------------------------------------------------------------------- C29
\* The list after the upload is the list before it with entries appended.
AppendedTo(before, after) ==
    /\ Len(after) >= Len(before)
    /\ SubSeq(after, 1, Len(before)) = before

\* C29: an upload answered with a 400 error leaves all_job_descriptions as
\* it was; the list changes only on an upload answered with success, and
\* then only by appending.
C29_ErrorLeavesListUnchanged ==
    [][/\ ret'.fn = "upload_job_desc"
       /\ IF ret'.value.status = 400
          THEN all_job_descriptions' = all_job_descriptions
          ELSE AppendedTo(all_job_descriptions, all_job_descriptions')]_vars

\* ------------------------------------------------------------------- C30
\* C30: in a success response of match_resume_job the recommendation agrees
\* with the reported match_percentage: 80 or more comes with the Excellent
\* tier, 60 or more with at least the Good tier, 40 or more with at least
\* the Moderate tier.
C30_RecommendationAgrees ==
    ret.fn = "match_resume_job" =>
        LET reported == ret.value.match_percentage
            tier == Tier(ret.value.recommendation)
        IN  /\ reported >= 80 * ScoreScale => tier = 4
            /\ reported >= 60 * ScoreScale => tier >= 3
            /\ reported >= 40 * ScoreScale => tier >= 2

=============================================================================
